---------------------------- MODULE Spec2Model ----------------------------
(***************************************************************************)
(* A model of the puzzlescript-rust core: cells, boards with stripe        *)
(* caches, brackets, rules, rule groups and loops, the game driver with    *)
(* its motion resolution, and the engine with its undo stack.              *)
(*                                                                         *)
(* Positions are records [x, y] counted from 0 as in the source; the grid  *)
(* of a board is a row-major sequence, so the cell of position p is        *)
(* grid[p.y * width + p.x + 1].  An Option is a sequence of no element     *)
(* (None) or of one (Some), except for directions and messages, where the  *)
(* string "None" stands for None.  A local variable of the source that is  *)
(* read more than once is the parameter of an operator of its own.         *)
(***************************************************************************)
EXTENDS Integers, Sequences, FiniteSets, TLC

(***************************************************************************)
(* Bounds of the model.                                                    *)
(***************************************************************************)
\* ticks explored from each initial engine under Spec
MaxTicks == 3
\* boards on the undo stack of the engine that Spec starts in mid-game
StartPushes == 99
\* sprites placed on a board whose motion is resolved under SpecPost
MaxMovers == 2
\* win conditions declared by a game drawn under SpecWin
MaxWins == 2
\* operations applied to a board under SpecBoard
MaxOps == 2
\* operations applied under SpecFilter to a board that lost a sprite
MaxEdits == 1
\* operations applied to the two BitSets of SpecBits
MaxBitOps == 3

(***************************************************************************)
(* Program constants.                                                      *)
(***************************************************************************)
\* engine.rs:135  if self.undo_stack.len() > 100
UndoLimit == 100
\* engine.rs:136  self.undo_stack.drain(1..50)
DrainEnd == 50
\* rule.rs: the iteration ceiling of RuleGroup and RuleLoop
LoopCeiling == 1000
\* bitset.rs:3  const BUCKET_SIZE: u16 = 128
BUCKET_SIZE == 128
\* bitset.rs:4  const BUCKET_COUNT: usize = 4
BUCKET_COUNT == 4

None == "None"

(***************************************************************************)
(* util.rs: WantsToMove, CardinalDirection, Position, SpriteState          *)
(***************************************************************************)
WantsToMove == {"Stationary", "Up", "Down", "Left", "Right", "Action", "RandomDir"}

CardinalDirection == {"Up", "Down", "Left", "Right"}

\* WantsToMove::to_cardinal_direction
ToCardinalDirection(w) == IF w \in CardinalDirection THEN w ELSE None

Pos(x, y) == [x |-> x, y |-> y]

SpriteState(index, collision_layer) ==
    [index |-> index, collision_layer |-> collision_layer]

SpriteAndWantsToMove(sprite_index, wants_to_move) ==
    [sprite_index |-> sprite_index, wants_to_move |-> wants_to_move]

\* a map with key k bound to v (FnvHashMap::insert)
MapPut(m, k, v) == [j \in (DOMAIN m) \cup {k} |-> IF j = k THEN v ELSE m[j]]

\* a map without key k (FnvHashMap::remove)
MapDel(m, k) == [j \in (DOMAIN m) \ {k} |-> m[j]]

EmptyMap == [j \in {} |-> None]

\* the elements of a finite set of integers in ascending order
RECURSIVE SortedSeq(_)
SortedSeq(S) ==
    IF S = {} THEN <<>>
    ELSE LET m == CHOOSE a \in S : \A b \in S : a <= b
         IN  <<m>> \o SortedSeq(S \ {m})

(***************************************************************************)
(* cell.rs: Cell                                                           *)
(***************************************************************************)
CellNew == [collision_layers |-> EmptyMap, sprite_bits |-> {}]

\* a cell whose bit set keeps the sprite that is replaced in its layer
CellAddSpriteIndexKeepBit(cell, collision_layer, sprite_index, wants_to_move) ==
    [cell |-> [collision_layers |->
                  MapPut(cell.collision_layers, collision_layer,
                         SpriteAndWantsToMove(sprite_index, wants_to_move)),
               sprite_bits |-> cell.sprite_bits \cup {sprite_index}],
     changed |-> TRUE]

\* Cell::add_sprite_index; the result carries the "changed" flag.
\* (the RandomDir guard of the source panics; no caller here passes RandomDir)
CellAddSpriteIndex(cell, collision_layer, sprite_index, wants_to_move) ==
    IF collision_layer \notin DOMAIN cell.collision_layers
    THEN [cell |-> [collision_layers |->
                        MapPut(cell.collision_layers, collision_layer,
                               SpriteAndWantsToMove(sprite_index, wants_to_move)),
                    sprite_bits |-> cell.sprite_bits \cup {sprite_index}],
          changed |-> TRUE]
    ELSE IF cell.collision_layers[collision_layer]
              = SpriteAndWantsToMove(sprite_index, wants_to_move)
         THEN [cell |-> cell, changed |-> FALSE]
         ELSE [cell |-> [collision_layers |->
                            [cell.collision_layers EXCEPT ![collision_layer] =
                                SpriteAndWantsToMove(sprite_index, wants_to_move)],
                         sprite_bits |->
                            (cell.sprite_bits
                                \ {cell.collision_layers[collision_layer].sprite_index})
                            \cup {sprite_index}],
               changed |-> TRUE]

\* Cell::remove_collision_layer
CellRemoveCollisionLayer(cell, collision_layer) ==
    IF collision_layer \in DOMAIN cell.collision_layers
    THEN [cell |-> [collision_layers |-> MapDel(cell.collision_layers, collision_layer),
                    sprite_bits |-> cell.sprite_bits
                                      \ {cell.collision_layers[collision_layer].sprite_index}],
          changed |-> TRUE]
    ELSE [cell |-> cell, changed |-> FALSE]

\* Cell::set_wants_to_move (the layer is occupied: the source panics otherwise)
CellSetWantsToMove(cell, collision_layer, dir) ==
    IF cell.collision_layers[collision_layer].wants_to_move = dir
    THEN [cell |-> cell, changed |-> FALSE]
    ELSE [cell |-> [collision_layers |->
                        [cell.collision_layers EXCEPT ![collision_layer].wants_to_move = dir],
                    sprite_bits |->
                        cell.sprite_bits
                            \cup {cell.collision_layers[collision_layer].sprite_index}],
          changed |-> TRUE]

CellHasCollisionLayer(cell, collision_layer) ==
    collision_layer \in DOMAIN cell.collision_layers

\* BitSet::contains_any: true for an argument without members
BitsContainAny(a, b) == b = {} \/ a \cap b # {}

BitsContainAll(a, b) == b \subseteq a

(***************************************************************************)
(* tile.rs: Tile, TileWithModifier                                         *)
(***************************************************************************)
(***************************************************************************)
(* bitset.rs: BitSet with its buckets and its emptiness flag.  A bucket    *)
(* (u128) is the set of the positions 0..127 of its bits that are set.     *)
(***************************************************************************)
\* BitSet::new
BitSetNew == [is_empty |-> TRUE, bits |-> [k \in 1..BUCKET_COUNT |-> {}]]

\* BitSet::contains
BitSetContains(s, index) ==
    (index % BUCKET_SIZE) \in s.bits[(index \div BUCKET_SIZE) + 1]

\* BitSet::insert
BitSetInsert(s, index) ==
    [is_empty |-> FALSE,
     bits |-> [s.bits EXCEPT ![(index \div BUCKET_SIZE) + 1] = @ \cup {index % BUCKET_SIZE}]]

\* BitSet::update_emptiness
BitSetUpdateEmptiness(s) ==
    [s EXCEPT !.is_empty = \A k \in 1..BUCKET_COUNT : s.bits[k] = {}]

\* BitSet::remove
BitSetRemove(s, index) ==
    BitSetUpdateEmptiness(
        [s EXCEPT !.bits[(index \div BUCKET_SIZE) + 1] = @ \ {index % BUCKET_SIZE}])

\* BitSet::contains_all
BitSetContainsAll(a, b) ==
    \A k \in 1..BUCKET_COUNT : a.bits[k] \cap b.bits[k] = b.bits[k]

\* BitSet::contains_none
BitSetContainsNone(a, b) ==
    \A k \in 1..BUCKET_COUNT : a.bits[k] \cap b.bits[k] = {}

\* BitSet::is_empty
BitSetIsEmpty(s) == s.is_empty

\* BitSet::contains_any
BitSetContainsAny(a, b) ==
    IF BitSetIsEmpty(b) THEN TRUE
    ELSE \E k \in 1..BUCKET_COUNT : a.bits[k] \cap b.bits[k] # {}

\* BitSet::insert_all: the buckets are ORed, the flag is left as it is
BitSetInsertAll(a, b) ==
    [a EXCEPT !.bits = [k \in 1..BUCKET_COUNT |-> a.bits[k] \cup b.bits[k]]]

\* bitset.rs:116-122: the loop over the bits i of one bucket; i % 2 == 1 is
\* bit 0 set, i >>= 1 takes every bit one position down
RECURSIVE IntoVecBucket(_, _, _)
IntoVecBucket(i, index, ret) ==
    IF index >= 0 /\ Len(ret) >= 0 /\ i = {} THEN [index |-> index, ret |-> ret]
    ELSE IntoVecBucket({k - 1 : k \in i \ {0}}, index + 1,
                       IF 0 \in i THEN Append(ret, index) ELSE ret)

\* bitset.rs:113-123: the loop over the buckets
RECURSIVE IntoVecFrom(_, _, _, _)
IntoVecFrom(s, bucket, index, ret) ==
    LET Next(r) == IntoVecFrom(s, bucket + 1, r.index, r.ret)
    IN  IF bucket > BUCKET_COUNT THEN ret
        ELSE IF s.bits[bucket] = {}
             THEN IntoVecFrom(s, bucket + 1, index + BUCKET_SIZE, ret)
             ELSE Next(IntoVecBucket(s.bits[bucket], index, ret))

\* BitSet::into_vec
BitSetIntoVec(s) == IntoVecFrom(s, 1, 0, <<>>)

\* Tile::new: sprites is a sequence of SpriteStates
Tile(kind, sprites) ==
    [kind |-> kind,
     sprites |-> sprites,
     bits |-> {sprites[i].index : i \in DOMAIN sprites},
     collision_layers |-> {sprites[i].collision_layer : i \in DOMAIN sprites}]

TileWithModifier(tile, direction, negated) ==
    [random |-> FALSE, negated |-> negated, tile |-> tile, direction |-> direction]

\* an Or tile matched by the sprite bits alone
CellMatchesAnyBits(cell, tile, dir) ==
    BitsContainAny(cell.sprite_bits, tile.bits)

\* Cell::matches_any
CellMatchesAny(cell, tile, dir) ==
    /\ BitsContainAny(cell.sprite_bits, tile.bits)
    /\ \E c \in tile.collision_layers :
          /\ c \in DOMAIN cell.collision_layers
          /\ cell.collision_layers[c].sprite_index \in tile.bits
          /\ (dir = None \/ cell.collision_layers[c].wants_to_move = dir)

\* Cell::matches_all
CellMatchesAll(cell, tile, dir) ==
    /\ BitsContainAll(cell.sprite_bits, tile.bits)
    /\ \A c \in tile.collision_layers :
          /\ c \in DOMAIN cell.collision_layers
          /\ cell.collision_layers[c].sprite_index \in tile.bits
          /\ (dir = None \/ cell.collision_layers[c].wants_to_move = dir)

\* Cell::matches / matches_no_cache
CellMatches(cell, tile, dir) ==
    IF tile.kind = "And" THEN CellMatchesAll(cell, tile, dir)
                         ELSE CellMatchesAny(cell, tile, dir)

(***************************************************************************)
(* board.rs: Neighbors, StripeCache, Board                                 *)
(***************************************************************************)
\* PositionIter::next: the position after cur in direction dir
StepPosition(width, height, cur, dir) ==
    CASE dir = "Up"    -> IF cur.y = 0 THEN <<>> ELSE <<Pos(cur.x, cur.y - 1)>>
      [] dir = "Down"  -> IF cur.y = height - 1 THEN <<>> ELSE <<Pos(cur.x, cur.y + 1)>>
      [] dir = "Left"  -> IF cur.x = 0 THEN <<>> ELSE <<Pos(cur.x - 1, cur.y)>>
      [] dir = "Right" -> IF cur.x = width - 1 THEN <<>> ELSE <<Pos(cur.x + 1, cur.y)>>

\* Neighbors::iter collected: the positions from start to the edge, start included
RECURSIVE NeighborPositions(_, _, _, _)
NeighborPositions(width, height, start, dir) ==
    LET Rest(nxt) == IF nxt = <<>> THEN <<>>
                     ELSE NeighborPositions(width, height, nxt[1], dir)
    IN  <<start>> \o Rest(StepPosition(width, height, start, dir))

\* Neighbors::len
NeighborsLen(width, height, start, dir) ==
    CASE dir = "Up"    -> start.y + 1
      [] dir = "Down"  -> height - start.y
      [] dir = "Left"  -> start.x + 1
      [] dir = "Right" -> width - start.x

\* Iterator::nth on a sequence (n counted from 0), None past the end
Nth(ps, n) == IF n + 1 <= Len(ps) THEN <<ps[n + 1]>> ELSE <<>>

\* Neighbors::nth
NeighborsNth(width, height, start, dir, n) ==
    Nth(NeighborPositions(width, height, start, dir), n)

StripeCacheNew == [sprites |-> {}, dirs |-> {}]

\* StripeCache::add_sprite_index
StripeAddSpriteIndex(cache, collision_layer, sprite_index, dir) ==
    [sprites |-> cache.sprites \cup {sprite_index},
     dirs |-> cache.dirs \cup {<<collision_layer, dir>>}]

\* a stripe cache that evicts the directions of a layer as soon as one cell
\* of the stripe loses its sprite of that layer
StripeRemoveCollisionLayerEager(cache, collision_layer) ==
    [cache EXCEPT !.dirs = {d \in @ : d[1] # collision_layer}]

\* StripeCache::remove_collision_layer: nothing is evicted
StripeRemoveCollisionLayer(cache, collision_layer) == cache

\* a stripe cache that does not record a direction set on a sprite
StripeSetWantsToMoveNone(cache, collision_layer, dir) == cache

\* StripeCache::set_wants_to_move
StripeSetWantsToMove(cache, collision_layer, dir) ==
    [cache EXCEPT !.dirs = @ \cup {<<collision_layer, dir>>}]

\* StripeCache::contains_all_dirs
StripeContainsAllDirs(cache, dirs) == dirs \subseteq cache.dirs

\* Board::new
BoardNew(width, height) ==
    [width |-> width, height |-> height,
     grid |-> [i \in 1..(width * height) |-> CellNew],
     row_cache |-> [y \in 1..height |-> StripeCacheNew],
     col_cache |-> [x \in 1..width |-> StripeCacheNew]]

\* Board::pos, shifted by one for the 1-based sequence
GridIndex(board, pos) == pos.y * board.width + pos.x + 1

\* Board::index_to_pos for a 0-based index
IndexToPos(board, index) == Pos(index % board.width, index \div board.width)

\* Board::positions_iter: every position in row-major order
PositionsIter(board) ==
    [i \in 1..(board.width * board.height) |-> IndexToPos(board, i - 1)]

BoardGet(board, pos) == board.grid[GridIndex(board, pos)]

\* the board after a cell operation at pos with result r = [cell, changed]:
\* the cell is stored and the caches of its row and its column are updated
BoardStore(board, pos, r, row_cache, col_cache) ==
    [board |-> [board EXCEPT !.row_cache[pos.y + 1] = row_cache,
                             !.col_cache[pos.x + 1] = col_cache,
                             !.grid[GridIndex(board, pos)] = r.cell],
     changed |-> r.changed]

\* Board::add_sprite_index (Board::add_sprite is the same on a SpriteState)
BoardAddSpriteIndex(board, pos, collision_layer, sprite_index, dir) ==
    BoardStore(board, pos,
        CellAddSpriteIndex(BoardGet(board, pos), collision_layer, sprite_index, dir),
        StripeAddSpriteIndex(board.row_cache[pos.y + 1], collision_layer, sprite_index, dir),
        StripeAddSpriteIndex(board.col_cache[pos.x + 1], collision_layer, sprite_index, dir))

BoardAddSprite(board, pos, sprite, dir) ==
    BoardAddSpriteIndex(board, pos, sprite.collision_layer, sprite.index, dir)

\* Board::remove_collision_layer
BoardRemoveCollisionLayer(board, pos, collision_layer) ==
    BoardStore(board, pos,
        CellRemoveCollisionLayer(BoardGet(board, pos), collision_layer),
        StripeRemoveCollisionLayer(board.row_cache[pos.y + 1], collision_layer),
        StripeRemoveCollisionLayer(board.col_cache[pos.x + 1], collision_layer))

\* Board::set_wants_to_move
BoardSetWantsToMove(board, pos, collision_layer, dir) ==
    BoardStore(board, pos,
        CellSetWantsToMove(BoardGet(board, pos), collision_layer, dir),
        StripeSetWantsToMove(board.row_cache[pos.y + 1], collision_layer, dir),
        StripeSetWantsToMove(board.col_cache[pos.x + 1], collision_layer, dir))

BoardHasCollisionLayer(board, pos, collision_layer) ==
    CellHasCollisionLayer(BoardGet(board, pos), collision_layer)

\* Board::matches
BoardMatches(board, pos, tile, dir) == CellMatches(BoardGet(board, pos), tile, dir)

\* a neighbor position that wraps around the edges of the board
NeighborPositionWrapping(board, pos, dir) ==
    CASE dir = "Up"    -> <<Pos(pos.x, (pos.y + board.height - 1) % board.height)>>
      [] dir = "Down"  -> <<Pos(pos.x, (pos.y + 1) % board.height)>>
      [] dir = "Left"  -> <<Pos((pos.x + board.width - 1) % board.width, pos.y)>>
      [] dir = "Right" -> <<Pos((pos.x + 1) % board.width, pos.y)>>

\* Board::neighbor_position: the second element of the neighbors
NeighborPosition(board, pos, dir) ==
    NeighborsNth(board.width, board.height, pos, dir, 1)

\* impl PartialEq for Board: the caches take no part
BoardEq(a, b) == a.width = b.width /\ a.height = b.height /\ a.grid = b.grid

\* add the sprites of a sequence to one position, Stationary
RECURSIVE AddSpritesAt(_, _, _)
AddSpritesAt(board, pos, sprites) ==
    IF sprites = <<>> THEN board
    ELSE AddSpritesAt(BoardAddSprite(board, pos, Head(sprites), "Stationary").board,
                      pos, Tail(sprites))

\* Board::from_tiles: cell by cell, the background tile's sprites and then the
\* level tile's (the level holds And tiles only: an Or tile panics)
RECURSIVE FromTilesFrom(_, _, _, _)
FromTilesFrom(board, grid, background_tile, i) ==
    LET At(pos) ==
          FromTilesFrom(
              AddSpritesAt(AddSpritesAt(board, pos, background_tile.sprites),
                           pos, grid[pos.y + 1][pos.x + 1].sprites),
              grid, background_tile, i + 1)
    IN  IF i > board.width * board.height THEN board
        ELSE At(IndexToPos(board, i - 1))

FromTiles(grid, background_tile) ==
    FromTilesFrom(BoardNew(Len(grid[1]), Len(grid)), grid, background_tile, 1)

\* board.rs:209-213: the cell of a checkpoint, its sprites added Stationary
RECURSIVE CheckpointCell(_, _)
CheckpointCell(cell, sprites) ==
    IF sprites = <<>> THEN cell
    ELSE CheckpointCell(CellAddSpriteIndex(cell, Head(sprites).collision_layer,
                                           Head(sprites).index, "Stationary").cell,
                        Tail(sprites))

\* board.rs:211-212: the cache of a stripe made of the cells of a set of
\* indices: every sprite of theirs is added, Stationary
CheckpointCache(grid, indices) ==
    [sprites |-> UNION {{grid[i][k].index : k \in DOMAIN grid[i]} : i \in indices},
     dirs |-> UNION {{<<grid[i][k].collision_layer, "Stationary">> : k \in DOMAIN grid[i]} :
                       i \in indices}]

\* Board::from_checkpoint: grid lists the sprites of each cell in row-major order
FromCheckpoint(width, height, grid) ==
    [width |-> width, height |-> height,
     grid |-> [i \in DOMAIN grid |-> CheckpointCell(CellNew, grid[i])],
     row_cache |-> [y \in 1..height |->
                      CheckpointCache(grid, {i \in DOMAIN grid : (i - 1) \div width = y - 1})],
     col_cache |-> [x \in 1..width |->
                      CheckpointCache(grid, {i \in DOMAIN grid : (i - 1) % width = x - 1})]]

(***************************************************************************)
(* game.rs: GameData::evaluate_post, the motion resolution                 *)
(***************************************************************************)
\* the occupied slots <<pos, collision_layer>> of a board from grid index i on:
\* positions in row-major order (positions_iter), the layers of a cell in
\* ascending order.  The source walks a cell's hash map; slots of different
\* layers never touch the same slot, so the order within a cell is immaterial.
RECURSIVE SlotsFrom(_, _)
SlotsFrom(board, i) ==
    LET Of(pos, layers) == [k \in 1..Len(layers) |-> <<pos, layers[k]>>]
    IN  IF i > board.width * board.height THEN <<>>
        ELSE Of(IndexToPos(board, i - 1), SortedSeq(DOMAIN board.grid[i].collision_layers))
             \o SlotsFrom(board, i + 1)

\* the slots of the board from the last position back to the first
SlotsReversed(board) ==
    [k \in 1..Len(SlotsFrom(board, 1)) |->
        SlotsFrom(board, 1)[Len(SlotsFrom(board, 1)) + 1 - k]]

Slots(board) == SlotsFrom(board, 1)

SlotEntry(board, slot) == BoardGet(board, slot[1]).collision_layers[slot[2]]

\* game.rs:281-289: the cell a sprite at pos that wants_to_move w heads for:
\* None when w is no cardinal direction or the edge is in the way
PostTarget(board, pos, w) ==
    IF ToCardinalDirection(w) = None THEN <<>> ELSE NeighborPosition(board, pos, w)

\* game.rs:282-288: a slot marked to become Stationary in this pass
PostToStationary(board, slot) ==
    LET Marked(w) == IF ToCardinalDirection(w) = None THEN w # "Stationary"
                     ELSE PostTarget(board, slot[1], w) = <<>>
    IN  Marked(SlotEntry(board, slot).wants_to_move)

\* game.rs:289-293: a slot scheduled to move in this pass
PostToMove(board, slot) ==
    LET Free(target) == /\ target # <<>>
                        /\ ~BoardHasCollisionLayer(board, target[1], slot[2])
    IN  Free(PostTarget(board, slot[1], SlotEntry(board, slot).wants_to_move))

\* game.rs:291: the entry <<pos, c, neighbor_pos, sprite_index>> of a mover
PostMove(board, slot) ==
    LET Entry(sw) == <<slot[1], slot[2],
                       PostTarget(board, slot[1], sw.wants_to_move)[1], sw.sprite_index>>
    IN  Entry(SlotEntry(board, slot))

\* game.rs:300-303
RECURSIVE PostApplyStationary(_, _, _)
PostApplyStationary(board, did_change, to_stationary) ==
    LET Next(r) == PostApplyStationary(r.board, did_change \/ r.changed,
                                       Tail(to_stationary))
    IN  IF to_stationary = <<>> THEN [board |-> board, did_change |-> did_change]
        ELSE Next(BoardSetWantsToMove(board, to_stationary[1][1], to_stationary[1][2],
                                      "Stationary"))

\* a move that leaves the sprite its direction in the cell it enters
PostMoveSpriteOn(board, m) ==
    LET Added(r1, r2) == [board |-> r2.board, changed |-> r1.changed \/ r2.changed]
        Removed(r1) == Added(r1, BoardAddSpriteIndex(r1.board, m[3], m[2], m[4],
                                    SlotEntry(board, <<m[1], m[2]>>).wants_to_move))
    IN  Removed(BoardRemoveCollisionLayer(board, m[1], m[2]))

\* game.rs:310-316: the sprite of entry m leaves its cell and enters the target
PostMoveSprite(board, m) ==
    LET Added(r1, r2) == [board |-> r2.board, changed |-> r1.changed \/ r2.changed]
        Removed(r1) == Added(r1, BoardAddSpriteIndex(r1.board, m[3], m[2], m[4],
                                                     "Stationary"))
    IN  Removed(BoardRemoveCollisionLayer(board, m[1], m[2]))

\* the movers applied without testing the target slot again
RECURSIVE PostApplyMovesBlind(_, _, _)
PostApplyMovesBlind(board, did_change, to_move) ==
    LET Next(r) == PostApplyMovesBlind(r.board, did_change \/ r.changed, Tail(to_move))
    IN  IF to_move = <<>> THEN [board |-> board, did_change |-> did_change]
        ELSE Next(PostMoveSprite(board, to_move[1]))

\* game.rs:304-320: the target slot is tested again when the move is applied
RECURSIVE PostApplyMoves(_, _, _)
PostApplyMoves(board, did_change, to_move) ==
    LET Next(r) == PostApplyMoves(r.board, did_change \/ r.changed, Tail(to_move))
    IN  IF to_move = <<>> THEN [board |-> board, did_change |-> did_change]
        ELSE IF ~BoardHasCollisionLayer(board, to_move[1][3], to_move[1][2])
             THEN Next(PostMoveSprite(board, to_move[1]))
             ELSE PostApplyMoves(board, did_change, Tail(to_move))

\* game.rs:299-320: the marked slots are made Stationary, then the movers move
PostApply(board, to_stationary, movers) ==
    LET Moves(r) == PostApplyMoves(r.board, r.did_change,
                                   [k \in DOMAIN movers |-> PostMove(board, movers[k])])
    IN  Moves(PostApplyStationary(board, FALSE, to_stationary))

\* game.rs:273-320: one pass of the loop of evaluate_post over the slots
PostPassOn(board, slots) ==
    PostApply(board,
              SelectSeq(slots, LAMBDA s : PostToStationary(board, s)),
              SelectSeq(slots, LAMBDA s : PostToMove(board, s)))

PostPass(board) == PostPassOn(board, Slots(board))

\* a resolution that stops after its first pass
PostLoopOnce(board, passes) ==
    [board |-> PostPass(board).board, passes |-> passes + 1]

\* the loop of evaluate_post (game.rs:272-333); passes counts the passes run
RECURSIVE PostLoop(_, _)
PostLoop(board, passes) ==
    LET Next(r) == IF ~r.did_change THEN [board |-> r.board, passes |-> passes + 1]
                   ELSE PostLoop(r.board, passes + 1)
    IN  Next(PostPass(board))

\* evaluate_post without the final pass that forces the blocked sprites still
PostClearNone(board) == board

\* game.rs:335-351: whatever still wants to move was blocked and is cleared
PostClear(board) ==
    PostApplyStationary(board, FALSE,
        SelectSeq(Slots(board),
                  LAMBDA s : SlotEntry(board, s).wants_to_move # "Stationary")).board

\* GameData::evaluate_post
EvaluatePost(board) == PostClear(PostLoop(board, 0).board)

(***************************************************************************)
(* util.rs: TriggeredCommands                                              *)
(***************************************************************************)
\* TriggeredCommands::new
NoCommands ==
    [message |-> None, again |-> FALSE, cancel |-> FALSE, checkpoint |-> FALSE,
     restart |-> FALSE, win |-> FALSE, sfx |-> FALSE]

\* TriggeredCommands::merge: the first message is kept, the flags are or-ed
Merge(t, other) ==
    [message |-> IF t.message = None THEN other.message ELSE t.message,
     again |-> t.again \/ other.again,
     cancel |-> t.cancel \/ other.cancel,
     checkpoint |-> t.checkpoint \/ other.checkpoint,
     restart |-> t.restart \/ other.restart,
     win |-> t.win \/ other.win,
     sfx |-> t.sfx \/ other.sfx]

(***************************************************************************)
(* engine.rs: the random number generator.  Its state is abstracted to the *)
(* number of values drawn since it was seeded: a seeded generator's output *)
(* is a function of that number alone.                                     *)
(***************************************************************************)
\* engine.rs: new_rng, the generator freshly seeded with the fixed seed
NewRng == 0

\* rng.gen_range(0, n): the value drawn and the generator after the draw
GenRange(rng, n) ==
    [value |-> ((((rng * rng) \div 3) + 1) % n), rng |-> rng + 1]

(***************************************************************************)
(* The neighbor module (model/neighbor.rs): a conjunction of modified      *)
(* tiles against one cell, and as an action the per-layer instructions     *)
(* that prepare_actions derives from a condition and its action.           *)
(***************************************************************************)
\* TileWithModifier::matches (tile.rs)
TwmMatches(twm, board, pos) ==
    twm.negated # BoardMatches(board, pos, twm.tile, twm.direction)

\* Neighbor::new: the tiles, no instruction yet
NeighborNew(tiles) == [tiles |-> tiles, actions |-> <<>>]

\* Neighbor::matches
NeighborMatches(n, board, pos) ==
    \A i \in DOMAIN n.tiles : TwmMatches(n.tiles[i], board, pos)

\* the sprites a neighbor names positively, each with its tile's direction
NeighborSprites(n) ==
    UNION {{[sprite |-> n.tiles[i].tile.sprites[j], direction |-> n.tiles[i].direction] :
              j \in DOMAIN n.tiles[i].tile.sprites} :
           i \in {k \in DOMAIN n.tiles : ~n.tiles[k].negated}}

NeighborLayers(n) == {e.sprite.collision_layer : e \in NeighborSprites(n)}

\* the instruction for an entry e of the action side, given the entries of the
\* condition side that name the same sprite: nothing (inert), a change of
\* direction of the sprite the condition holds, or an added sprite
InstructionFor(e, same) ==
    LET Modify(ce, dir) ==
          IF dir = None \/ dir = ce.direction THEN <<>>
          ELSE <<[kind |-> "modify", collision_layer |-> e.sprite.collision_layer,
                  sprite_index |-> e.sprite.index, dir |-> dir]>>
        Keep(ce) ==
          Modify(ce, IF e.direction # None THEN e.direction
                     ELSE IF ce.direction = None THEN None ELSE "Stationary")
    IN  IF same # {}
        THEN Keep(CHOOSE x \in same : TRUE)
        ELSE <<[kind |-> "add", collision_layer |-> e.sprite.collision_layer,
                sprite_index |-> e.sprite.index,
                dir |-> IF e.direction = None THEN "Stationary" ELSE e.direction]>>

\* the instruction for one collision layer of the action side
ActionInstruction(cs, as, layer) ==
    LET For(e) == InstructionFor(e, {x \in cs : x.sprite = e.sprite})
    IN  For(CHOOSE x \in as : x.sprite.collision_layer = layer)

RECURSIVE ActionInstructions(_, _, _)
ActionInstructions(cs, as, layers) ==
    IF layers = <<>> THEN <<>>
    ELSE ActionInstruction(cs, as, Head(layers)) \o ActionInstructions(cs, as, Tail(layers))

\* the instructions that remove the layers of a sequence
RemoveInstructions(gone) ==
    [k \in 1..Len(gone) |->
        [kind |-> "remove", collision_layer |-> gone[k], sprite_index |-> 0, dir |-> None]]

\* Neighbor::prepare_actions: a layer of the condition alone is removed, a layer
\* of the action alone is added, a sprite on both sides has its direction set.
\* The result carries whether the neighbor is not inert.
NeighborPrepareActions(c, a) ==
    LET Prepared(instrs) ==
          [neighbor |-> [c EXCEPT !.actions = instrs], has_actions |-> instrs # <<>>]
    IN  Prepared(RemoveInstructions(SortedSeq(NeighborLayers(c) \ NeighborLayers(a)))
                 \o ActionInstructions(NeighborSprites(c), NeighborSprites(a),
                                       SortedSeq(NeighborLayers(a))))

\* a direction to apply: RandomDir is drawn among the four cardinal directions
ResolveDir(dir, rng) ==
    LET Drawn(d) == [dir |-> <<"Up", "Down", "Left", "Right">>[d.value + 1],
                     rng |-> d.rng]
    IN  IF dir = "RandomDir" THEN Drawn(GenRange(rng, 4))
        ELSE [dir |-> dir, rng |-> rng]

\* one instruction applied at pos, its direction resolved to d
ApplyResolved(ins, board, pos, d) ==
    LET Applied(r) == [board |-> r.board, rng |-> d.rng, changed |-> r.changed]
    IN  Applied(CASE ins.kind = "remove" ->
                       BoardRemoveCollisionLayer(board, pos, ins.collision_layer)
                  [] ins.kind = "add" ->
                       BoardAddSpriteIndex(board, pos, ins.collision_layer,
                                           ins.sprite_index, d.dir)
                  [] ins.kind = "modify" ->
                       BoardSetWantsToMove(board, pos, ins.collision_layer, d.dir))

\* one instruction applied at pos
ApplyInstruction(ins, board, rng, pos) ==
    ApplyResolved(ins, board, pos, ResolveDir(ins.dir, rng))

RECURSIVE ApplyInstructions(_, _, _, _, _)
ApplyInstructions(instrs, board, rng, pos, changed) ==
    LET Next(r) == ApplyInstructions(Tail(instrs), r.board, r.rng, pos,
                                     changed \/ r.changed)
    IN  IF instrs = <<>> THEN [board |-> board, rng |-> rng, changed |-> changed]
        ELSE Next(ApplyInstruction(Head(instrs), board, rng, pos))

\* Neighbor::evaluate: the instructions of the neighbor applied to its position
NeighborEvaluate(n, board, rng, pos) ==
    ApplyInstructions(n.actions, board, rng, pos, FALSE)

\* Neighbor::populate_cache: what a stripe must hold for the neighbor to match
NeighborAllSprites(n) ==
    UNION {n.tiles[i].tile.bits :
             i \in {k \in DOMAIN n.tiles : ~n.tiles[k].negated /\ n.tiles[k].tile.kind = "And"}}

NeighborAnySprites(n) ==
    UNION {n.tiles[i].tile.bits :
             i \in {k \in DOMAIN n.tiles : ~n.tiles[k].negated /\ n.tiles[k].tile.kind = "Or"}}

NeighborMovements(n) ==
    UNION {{<<c, n.tiles[i].direction>> : c \in n.tiles[i].tile.collision_layers} :
             i \in {k \in DOMAIN n.tiles :
                      /\ ~n.tiles[k].negated
                      /\ n.tiles[k].direction # None
                      /\ \/ n.tiles[k].tile.kind = "And"
                         \/ Cardinality(n.tiles[k].tile.collision_layers) = 1}}

(***************************************************************************)
(* bracket.rs: Bracket, BracketMatch                                       *)
(***************************************************************************)
\* Bracket::new_ellipsis (Bracket::new is the case of no after_neighbors)
BracketNewEllipsis(dir, before_neighbors, after_neighbors) ==
    LET Of(ns) ==
          [dir |-> dir,
           before_neighbors |-> before_neighbors,
           after_neighbors |-> after_neighbors,
           all_sprites |-> UNION {NeighborAllSprites(ns[i]) : i \in DOMAIN ns},
           any_sprites |-> UNION {NeighborAnySprites(ns[i]) : i \in DOMAIN ns},
           sprite_movements_present |-> UNION {NeighborMovements(ns[i]) : i \in DOMAIN ns}]
    IN  Of(before_neighbors \o after_neighbors)

BracketNew(dir, before_neighbors) == BracketNewEllipsis(dir, before_neighbors, <<>>)

\* Neighbor::prepare_actions along two chains of neighbors
ChainPrepareActions(cs, as) ==
    [i \in DOMAIN cs |-> NeighborPrepareActions(cs[i], as[i])]

\* Bracket::prepare_actions: neighbor by neighbor against the action bracket
BracketPrepareActions(c, a) ==
    LET Prepared(before, after) ==
          [bracket |-> [c EXCEPT
                          !.before_neighbors = [i \in DOMAIN before |-> before[i].neighbor],
                          !.after_neighbors = [i \in DOMAIN after |-> after[i].neighbor]],
           has_actions |-> \/ \E i \in DOMAIN before : before[i].has_actions
                           \/ \E i \in DOMAIN after : after[i].has_actions]
    IN  Prepared(ChainPrepareActions(c.before_neighbors, a.before_neighbors),
                 ChainPrepareActions(c.after_neighbors, a.after_neighbors))

\* Bracket::is_horizontal
IsHorizontal(b) == b.dir \in {"Left", "Right"}

\* Bracket::matches_cache
MatchesCache(b, cache) ==
    /\ BitsContainAny(cache.sprites, b.any_sprites)
    /\ BitsContainAll(cache.sprites, b.all_sprites)
    /\ StripeContainsAllDirs(cache, b.sprite_movements_present)

\* the neighbors zipped with the positions of a sequence: all match
ZipMatches(board, self_neighbors, ps) ==
    \A i \in DOMAIN self_neighbors :
       i <= Len(ps) => NeighborMatches(self_neighbors[i], board, ps[i])

\* the neighbors zipped with the positions from start on: all match
ChainMatches(b, board, self_neighbors, start) ==
    ZipMatches(board, self_neighbors,
               NeighborPositions(board.width, board.height, start, b.dir))

\* bracket.rs: the stripe cache a bracket anchored at pos is tested against
CacheAt(b, board, pos) ==
    IF b.dir \in {"Up", "Down"} THEN board.col_cache[pos.x + 1]
                                ELSE board.row_cache[pos.y + 1]

\* Bracket::inner_find_match: Some(start) when the chain fits and matches
InnerFindMatch(b, board, start_pos, self_neighbors) ==
    IF Len(self_neighbors) > NeighborsLen(board.width, board.height, start_pos, b.dir)
    THEN <<>>
    ELSE IF /\ MatchesCache(b, CacheAt(b, board, start_pos))
            /\ ChainMatches(b, board, self_neighbors, start_pos)
         THEN <<start_pos>>
         ELSE <<>>

\* a BracketMatch: the start of the before chain and, for an ellipsis bracket,
\* the start of the after chain (each with the bracket's direction to the edge)
BracketMatch(before, after) == [before_positions |-> before, after_positions |-> after]

\* an ellipsis search that stops at the first position where the after chain
\* matches
RECURSIVE EllipsisMatchesFirst(_, _, _, _)
EllipsisMatchesFirst(b, board, before, starts) ==
    IF starts = <<>> THEN <<>>
    ELSE IF InnerFindMatch(b, board, Head(starts), b.after_neighbors) # <<>>
         THEN <<BracketMatch(before, InnerFindMatch(b, board, Head(starts),
                                                    b.after_neighbors))>>
         ELSE EllipsisMatchesFirst(b, board, before, Tail(starts))

\* the matches of the after chain anchored at each of the positions
RECURSIVE EllipsisMatches(_, _, _, _)
EllipsisMatches(b, board, before, starts) ==
    LET Found(after) == IF after = <<>> THEN <<>> ELSE <<BracketMatch(before, after)>>
    IN  IF starts = <<>> THEN <<>>
        ELSE Found(InnerFindMatch(b, board, Head(starts), b.after_neighbors))
             \o EllipsisMatches(b, board, before, Tail(starts))

\* bracket.rs: the after chain of an ellipsis bracket whose before chain
\* matched at before, searched from the first position past the before chain
FindAfter(b, board, before, start_neighbor) ==
    IF start_neighbor = <<>> THEN <<>>
    ELSE EllipsisMatches(b, board, before,
            NeighborPositions(board.width, board.height, start_neighbor[1], b.dir))

\* Bracket::find_match, given the match of the before chain
FindMatchAfter(b, board, before) ==
    IF before = <<>> THEN <<>>
    ELSE IF b.after_neighbors = <<>> THEN <<BracketMatch(before[1], <<>>)>>
    ELSE FindAfter(b, board, before[1],
                   NeighborsNth(board.width, board.height, before[1], b.dir,
                                Len(b.before_neighbors)))

\* Bracket::find_match
FindMatch(b, board, start_pos) ==
    FindMatchAfter(b, board, InnerFindMatch(b, board, start_pos, b.before_neighbors))

\* Bracket::matches: the match still holds on the board
BracketMatches(b, board, m) ==
    /\ ChainMatches(b, board, b.before_neighbors, m.before_positions)
    /\ m.after_positions # <<>> =>
          ChainMatches(b, board, b.after_neighbors, m.after_positions[1])

\* the neighbors of a chain evaluated in turn at the positions of a sequence
RECURSIVE ChainEvaluate(_, _, _, _, _, _)
ChainEvaluate(neighbors, ps, i, board, rng, changed) ==
    LET Next(r) == ChainEvaluate(neighbors, ps, i + 1, r.board, r.rng,
                                 changed \/ r.changed)
    IN  IF i > Len(neighbors) \/ i > Len(ps)
        THEN [board |-> board, rng |-> rng, changed |-> changed]
        ELSE Next(NeighborEvaluate(neighbors[i], board, rng, ps[i]))

\* bracket.rs:203-207: the after chain of an ellipsis bracket, evaluated on the
\* result r of the before chain
BracketEvaluateAfter(b, m, r) ==
    IF b.after_neighbors # <<>>
    THEN ChainEvaluate(b.after_neighbors,
             NeighborPositions(r.board.width, r.board.height, m.after_positions[1], b.dir),
             1, r.board, r.rng, r.changed)
    ELSE r

\* Bracket::evaluate
BracketEvaluate(b, board, rng, m) ==
    BracketEvaluateAfter(b, m,
        ChainEvaluate(b.before_neighbors,
            NeighborPositions(board.width, board.height, m.before_positions, b.dir),
            1, board, rng, FALSE))

(***************************************************************************)
(* rule.rs: Rule                                                           *)
(***************************************************************************)
\* build_permutations: the tuples of one value per row, the first row's value
\* varying fastest
RECURSIVE BuildPermutationsFrom(_, _)
BuildPermutationsFrom(tuples, cells) ==
    IF cells = <<>> THEN tuples
    ELSE BuildPermutationsFrom(
            [k \in 1..(Len(cells[1]) * Len(tuples)) |->
                Append(tuples[((k - 1) % Len(tuples)) + 1],
                       cells[1][((k - 1) \div Len(tuples)) + 1])],
            Tail(cells))

BuildPermutations(cells) == BuildPermutationsFrom(<< <<>> >>, cells)

\* Rule::prepare_actions: each condition bracket against its action bracket
RulePrepareActions(conditions, actions) ==
    [i \in DOMAIN conditions |->
        IF i \in DOMAIN actions
        THEN BracketPrepareActions(conditions[i], actions[i])
        ELSE [bracket |-> conditions[i], has_actions |-> FALSE]]

\* a Rule from its prepared conditions
PreparedRule(prepared, actions, commands, late) ==
    [conditions |-> [i \in DOMAIN prepared |-> prepared[i].bracket],
     actions |-> actions,
     commands |-> commands,
     random |-> FALSE,
     late |-> late,
     rigid |-> FALSE,
     causes_board_changes |-> \E i \in DOMAIN actions : prepared[i].has_actions]

\* a Rule given by its conditions and actions, its actions prepared
Rule(conditions, actions, commands, late) ==
    PreparedRule(RulePrepareActions(conditions, actions), actions, commands, late)

\* Rule::has_only_commands
HasOnlyCommands(rule) == ~rule.causes_board_changes

\* the matches of one bracket anchored at the positions of a sequence
RECURSIVE MatchesAt(_, _, _)
MatchesAt(c, board, ps) ==
    IF ps = <<>> THEN <<>>
    ELSE FindMatch(c, board, Head(ps)) \o MatchesAt(c, board, Tail(ps))

\* rule.rs: the positions of stripe k: a row for a horizontal bracket, a
\* column for a vertical one
StripePositions(c, board, k) ==
    IF IsHorizontal(c) THEN [x \in 1..board.width |-> Pos(x - 1, k)]
                       ELSE [y \in 1..board.height |-> Pos(k, y - 1)]

\* rule.rs:188-207: the matches of one bracket.  A horizontal bracket scans
\* the rows that pass the cache filter, x ascending within a row; a vertical
\* one scans the columns that pass it, y ascending within a column.
RECURSIVE StripeMatches(_, _, _)
StripeMatches(c, board, k) ==
    IF k >= (IF IsHorizontal(c) THEN board.height ELSE board.width) THEN <<>>
    ELSE (IF MatchesCache(c, IF IsHorizontal(c) THEN board.row_cache[k + 1]
                             ELSE board.col_cache[k + 1])
          THEN MatchesAt(c, board, StripePositions(c, board, k))
          ELSE <<>>) \o StripeMatches(c, board, k + 1)

\* Rule::find_matches: one list of matches per condition, or nothing at all
\* as soon as one condition has no match
RECURSIVE FindMatchesFrom(_, _, _)
FindMatchesFrom(rule, board, i) ==
    LET Rest(matches, rest) ==
          IF rest.ok THEN [ok |-> TRUE, ret |-> <<matches>> \o rest.ret] ELSE rest
        Found(matches) ==
          IF matches = <<>> THEN [ok |-> FALSE, ret |-> <<>>]
          ELSE Rest(matches, FindMatchesFrom(rule, board, i + 1))
    IN  IF i > Len(rule.conditions) THEN [ok |-> TRUE, ret |-> <<>>]
        ELSE Found(StripeMatches(rule.conditions[i], board, 0))

FindMatches(rule, board) == FindMatchesFrom(rule, board, 1).ret

\* rule.rs:139: an entry of applied_pos: the bracket match p of condition i,
\* kept with the board it was applied to
AppliedPos(i, p, board) == [condition |-> i, match |-> p, board |-> board]

\* the brackets of one tuple applied in turn, whether they still match or not
RECURSIVE ApplyPermUnchecked(_, _, _, _, _, _, _)
ApplyPermUnchecked(rule, perm, i, board, rng, changed, applied) ==
    LET Next(r) == ApplyPermUnchecked(rule, perm, i + 1, r.board, r.rng,
                                      changed \/ r.changed,
                                      Append(applied, AppliedPos(i, perm[i], board)))
    IN  IF i > Len(rule.conditions)
        THEN [board |-> board, rng |-> rng, changed |-> changed, applied |-> applied]
        ELSE Next(BracketEvaluate(rule.conditions[i], board, rng, perm[i]))

\* rule.rs:133-142: the brackets of one tuple applied in turn, each only if it
\* matches the board as it is when its turn comes
RECURSIVE ApplyPerm(_, _, _, _, _, _, _)
ApplyPerm(rule, perm, i, board, rng, changed, applied) ==
    LET Next(r) == ApplyPerm(rule, perm, i + 1, r.board, r.rng, changed \/ r.changed,
                             Append(applied, AppliedPos(i, perm[i], board)))
    IN  IF i > Len(rule.conditions)
        THEN [board |-> board, rng |-> rng, changed |-> changed, applied |-> applied]
        ELSE IF BracketMatches(rule.conditions[i], board, perm[i])
             THEN Next(BracketEvaluate(rule.conditions[i], board, rng, perm[i]))
             ELSE ApplyPerm(rule, perm, i + 1, board, rng, changed, applied)

\* rule.rs:125-133: every condition still matches its bracket match of the tuple
StillMatches(rule, board, perm) ==
    \A i \in DOMAIN rule.conditions : BracketMatches(rule.conditions[i], board, perm[i])

\* rule.rs:120-158: the tuples in turn; a tuple is applied if every condition
\* still matches; with eval_once the first change ends the call
RECURSIVE ApplyPerms(_, _, _, _, _, _, _, _)
ApplyPerms(rule, perms, k, board, rng, changed, eval_once, applied) ==
    LET Next(r) == IF r.changed /\ eval_once THEN r
                   ELSE ApplyPerms(rule, perms, k + 1, r.board, r.rng, r.changed,
                                   eval_once, r.applied)
    IN  IF k > Len(perms)
        THEN [board |-> board, rng |-> rng, changed |-> changed, applied |-> applied]
        ELSE Next(IF StillMatches(rule, board, perms[k])
                  THEN ApplyPerm(rule, perms[k], 1, board, rng, changed, applied)
                  ELSE [board |-> board, rng |-> rng, changed |-> changed,
                        applied |-> applied])

\* a Rule::evaluate that sets the commands whatever the matches are
RuleEvaluateOnAnyway(rule, board, rng, triggered, eval_once, matches) ==
    [board |-> board, rng |-> rng, triggered |-> Merge(triggered, rule.commands),
     changed |-> FALSE, applied |-> <<>>]

\* Rule::evaluate, given the matches found
RuleEvaluateOn(rule, board, rng, triggered, eval_once, matches) ==
    LET Applied(r) == [board |-> r.board, rng |-> r.rng,
                       triggered |-> Merge(triggered, rule.commands),
                       changed |-> r.changed, applied |-> r.applied]
    IN  IF matches # <<>> /\ \A i \in DOMAIN matches : Len(matches[i]) > 0
        THEN Applied(IF HasOnlyCommands(rule)
                     THEN [board |-> board, rng |-> rng, changed |-> FALSE,
                           applied |-> <<>>]
                     ELSE ApplyPerms(rule, BuildPermutations(matches), 1,
                                     board, rng, FALSE, eval_once, <<>>))
        ELSE [board |-> board, rng |-> rng, triggered |-> triggered, changed |-> FALSE,
              applied |-> <<>>]

\* a Rule::evaluate that never stops at the first change
RuleEvaluateAll(rule, board, rng, triggered, eval_once) ==
    RuleEvaluateOn(rule, board, rng, triggered, FALSE, FindMatches(rule, board))

\* Rule::evaluate
RuleEvaluate(rule, board, rng, triggered, eval_once) ==
    RuleEvaluateOn(rule, board, rng, triggered, eval_once, FindMatches(rule, board))

(***************************************************************************)
(* rule.rs: RuleGroup, RuleLoop.  An evaluation state es is the record     *)
(* [board, rng, triggered, changed, panic]; panic is set when the source   *)
(* panics, and nothing is evaluated after it.                              *)
(***************************************************************************)
EvalState(board, rng, triggered, changed, panic) ==
    [board |-> board, rng |-> rng, triggered |-> triggered, changed |-> changed,
     panic |-> panic]

\* rule.rs:308-315: one rule evaluated until it returns false
RECURSIVE RuleToExhaustion(_, _)
RuleToExhaustion(rule, es) ==
    LET Next(r, nxt) == IF r.changed THEN RuleToExhaustion(rule, nxt) ELSE nxt
        Evaluated(r) ==
          Next(r, EvalState(r.board, r.rng, r.triggered, es.changed \/ r.changed, FALSE))
    IN  Evaluated(RuleEvaluate(rule, es.board, es.rng, es.triggered, FALSE))

\* rule.rs:305-316: one pass over the rules of the group that have the late flag
RECURSIVE GroupPass(_, _, _, _)
GroupPass(group, late, i, es) ==
    IF i > Len(group.rules) THEN es
    ELSE GroupPass(group, late, i + 1,
                   IF group.rules[i].late = late
                   THEN RuleToExhaustion(group.rules[i], es)
                   ELSE es)

\* rule.rs:297-321: the passes of a non-random group, until one changes neither
\* the board nor the commands; es.changed accumulates board_changed
RECURSIVE GroupLoop(_, _, _, _)
GroupLoop(group, late, iteration, es) ==
    LET Next(r, nxt) == IF ~r.changed /\ es.triggered = r.triggered THEN nxt
                        ELSE GroupLoop(group, late, iteration + 1, nxt)
        Passed(r) == Next(r, [r EXCEPT !.changed = es.changed \/ r.changed])
    IN  IF iteration + 1 > LoopCeiling THEN [es EXCEPT !.panic = TRUE]
        ELSE Passed(GroupPass(group, late, 1, [es EXCEPT !.changed = FALSE]))

\* rule.rs:271-288: a random group tries its rules in rotation from a drawn
\* one, each once (eval_once), until one changes the board or the commands
RECURSIVE RandomTry(_, _, _, _, _)
RandomTry(group, late, rnd, offset, es) ==
    LET Tried(r) == RandomTry(group, late, rnd, offset + 1,
                              EvalState(r.board, r.rng, r.triggered,
                                        r.changed \/ es.triggered # r.triggered, FALSE))
        Try(rule) == IF rule.late = late
                     THEN Tried(RuleEvaluate(rule, es.board, es.rng, es.triggered, TRUE))
                     ELSE RandomTry(group, late, rnd, offset + 1, es)
    IN  IF es.changed \/ offset > Len(group.rules) THEN es
        ELSE Try(group.rules[((rnd + offset) % Len(group.rules)) + 1])

\* rule.rs:271-273: the draw of a random group
RandomStart(group, late, d, board, triggered) ==
    RandomTry(group, late, d.value, 0, EvalState(board, d.rng, triggered, FALSE, FALSE))

\* RuleGroup::evaluate; the result's changed flag is the value returned
GroupEvaluate(group, board, rng, triggered, late) ==
    IF group.random
    THEN RandomStart(group, late, GenRange(rng, Len(group.rules)), board, triggered)
    ELSE GroupLoop(group, late, 0, EvalState(board, rng, triggered, FALSE, FALSE))

\* rule.rs:360-362: the groups of a loop in turn; changed accumulates
\* evaluated_something
RECURSIVE LoopPass(_, _, _, _)
LoopPass(loop, late, i, es) ==
    LET Next(r) == LoopPass(loop, late, i + 1, [r EXCEPT !.changed = es.changed \/ r.changed])
    IN  IF i > Len(loop.rules) \/ es.panic THEN es
        ELSE Next(GroupEvaluate(loop.rules[i], es.board, es.rng, es.triggered, late))

\* rule.rs:357-381
RECURSIVE LoopLoop(_, _, _, _)
LoopLoop(loop, late, iterations, es) ==
    LET Next(r) == IF r.panic \/ ~loop.is_loop \/ ~r.changed THEN r
                   ELSE IF iterations + 1 > LoopCeiling THEN [r EXCEPT !.panic = TRUE]
                   ELSE LoopLoop(loop, late, iterations + 1, r)
    IN  Next(LoopPass(loop, late, 1, [es EXCEPT !.changed = FALSE]))

\* RuleLoop::evaluate: the commands start empty and are the value returned
LoopEvaluate(loop, board, rng, late) ==
    LoopLoop(loop, late, 0, EvalState(board, rng, NoCommands, FALSE, FALSE))

RuleGroup(random, rules) == [random |-> random, rules |-> rules]

RuleLoop(is_loop, rules) == [is_loop |-> is_loop, rules |-> rules]

(***************************************************************************)
(* game.rs: WinCondition, GameData                                         *)
(***************************************************************************)
WinSimple(qualifier, tile) ==
    [kind |-> "Simple", qualifier |-> qualifier, tile |-> tile, on_tile |-> tile]

WinOn(qualifier, tile, on_tile) ==
    [kind |-> "On", qualifier |-> qualifier, tile |-> tile, on_tile |-> on_tile]

\* WinCondition::update_acc folded over the positions ps: <<acc.0, acc.1>>
WinCount(w, board, ps) ==
    <<Cardinality({i \in DOMAIN ps : BoardMatches(board, ps[i], w.tile, None)}),
      IF w.kind = "Simple" THEN 0
      ELSE Cardinality({i \in DOMAIN ps : /\ BoardMatches(board, ps[i], w.tile, None)
                                          /\ BoardMatches(board, ps[i], w.on_tile, None)})>>

WinAcc(w, board) == WinCount(w, board, PositionsIter(board))

\* WinCondition::satisfies_acc (Simple with All is unreachable in the source)
SatisfiesAcc(w, acc) ==
    CASE w.kind = "Simple" /\ w.qualifier = "No" -> acc[1] = 0
      [] w.kind = "Simple" /\ w.qualifier \in {"Any", "Some"} -> acc[1] > 0
      [] w.kind = "On" /\ w.qualifier = "No" -> acc[2] = 0
      [] w.kind = "On" /\ w.qualifier \in {"Any", "Some"} -> acc[2] > 0
      [] w.kind = "On" /\ w.qualifier = "All" -> acc[1] = acc[2]

\* a win check that is content with one satisfied condition
CheckWinConditionsAny(g, board) ==
    /\ Len(g.win_conditions) # 0
    /\ \E i \in DOMAIN g.win_conditions :
          SatisfiesAcc(g.win_conditions[i], WinAcc(g.win_conditions[i], board))

\* GameData::check_win_conditions
CheckWinConditions(g, board) ==
    /\ Len(g.win_conditions) # 0
    /\ \A i \in DOMAIN g.win_conditions :
          SatisfiesAcc(g.win_conditions[i], WinAcc(g.win_conditions[i], board))

\* GameData::evaluate_rules: every top-level loop in turn, the commands merged
RECURSIVE EvaluateRulesFrom(_, _, _, _)
EvaluateRulesFrom(rules, late, i, es) ==
    LET Next(r) == EvaluateRulesFrom(rules, late, i + 1,
                      EvalState(r.board, r.rng, Merge(es.triggered, r.triggered),
                                FALSE, r.panic))
    IN  IF i > Len(rules) \/ es.panic THEN es
        ELSE Next(LoopEvaluate(rules[i], es.board, es.rng, late))

EvaluateRules(g, board, rng, late) ==
    EvaluateRulesFrom(g.rules, late, 1, EvalState(board, rng, NoCommands, FALSE, FALSE))

\* game.rs:403-408: the commands of both phases merged, the win conditions
\* checked on the board the late rules leave
EvaluateWin(g, t1, t2) ==
    IF t2.panic THEN t2
    ELSE EvalState(t2.board, t2.rng,
                   [Merge(t1.triggered, t2.triggered) EXCEPT
                      !.win = @ \/ CheckWinConditions(g, t2.board)],
                   FALSE, FALSE)

\* evaluate with the late rules run before motion is resolved
EvaluateLateFirst(g, t1) ==
    LET Moved(t2) == EvaluateWin(g, t1, [t2 EXCEPT !.board = EvaluatePost(t2.board)])
    IN  Moved(EvaluateRules(g, t1.board, t1.rng, TRUE))

\* game.rs:395-403: the motion resolution, then the late rules
EvaluateLate(g, t1) ==
    EvaluateWin(g, t1, EvaluateRules(g, EvaluatePost(t1.board), t1.rng, TRUE))

\* game.rs:390-394: cancel ends the evaluation after the non-late rules
EvaluateAfterRules(g, t1) ==
    IF t1.panic \/ t1.triggered.cancel THEN t1 ELSE EvaluateLate(g, t1)

\* GameData::evaluate: the non-late rules, the return on cancel, the motion
\* resolution, the late rules, the win conditions
Evaluate(g, board, rng) ==
    EvaluateAfterRules(g, EvaluateRules(g, board, rng, FALSE))

\* build_input_rule: the player tile, Stationary, is given the direction
BuildInputRule(player_tile, wants_to_move) ==
    RuleLoop(FALSE, <<RuleGroup(FALSE, <<
        Rule(<<BracketNew("Right",
                 <<NeighborNew(<<TileWithModifier(player_tile, "Stationary", FALSE)>>)>>)>>,
             <<BracketNew("Right",
                 <<NeighborNew(<<TileWithModifier(player_tile, wants_to_move, FALSE)>>)>>)>>,
             NoCommands, FALSE)>>)>>)

\* GameData::evaluate_player_input: the input rule's commands are dropped
EvaluatePlayerInput(g, board, rng, input) ==
    LoopEvaluate(BuildInputRule(g.player_tile, input), board, rng, FALSE)

\* GameData::to_board
ToBoard(g, level) == FromTiles(level.map, g.background_tile)

(***************************************************************************)
(* engine.rs: Engine, EngineInput, TickResult                              *)
(***************************************************************************)
\* the inputs of tick: None (a tick without input) or an EngineInput
EngineInput == {"Up", "Down", "Left", "Right", "Action", "Undo", "Restart"}

TickInputs == {None} \cup EngineInput

\* engine.rs:81-105: the inputs that set pressed
Pressed(input) == input \in {"Up", "Down", "Left", "Right", "Action"}

\* TickResult::empty
TickResultEmpty ==
    [changed |-> FALSE, completed_level |-> <<>>, checkpoint |-> <<>>,
     accepting_input |-> TRUE, sfx |-> FALSE]

\* a drain that starts at index 0
DrainFromStart(stack, from, to) == SubSeq(stack, to + 1, Len(stack))

\* Vec::drain(from..to) on 0-based indices: the elements from..to-1 are removed
Drain(stack, from, to) == SubSeq(stack, 1, from) \o SubSeq(stack, to + 1, Len(stack))

\* a push that never trims
PushUndoUntrimmed(undo_stack, board) == Append(undo_stack, board)

\* engine.rs:134-138: the stack is trimmed when it holds more than the limit,
\* then the pre-tick board is pushed
PushUndo(undo_stack, board) ==
    Append(IF Len(undo_stack) > UndoLimit THEN Drain(undo_stack, 1, DrainEnd)
           ELSE undo_stack,
           board)

\* engine.rs:106-113: the board Restart and Undo select; Undo pops at once
Unwind(board, undo_stack, input) ==
    IF undo_stack = <<>> \/ input \notin {"Restart", "Undo"}
    THEN [new |-> board, undo_stack |-> undo_stack]
    ELSE IF input = "Restart"
         THEN [new |-> undo_stack[1], undo_stack |-> undo_stack]
         ELSE [new |-> undo_stack[Len(undo_stack)],
               undo_stack |-> SubSeq(undo_stack, 1, Len(undo_stack) - 1)]

\* engine.rs:77-114: the board the rules are evaluated on, pressed, and the
\* undo stack
TickSelect(g, board, undo_stack, rng, input) ==
    LET Moved(r) == [new |-> r.board, rng |-> r.rng, pressed |-> TRUE,
                     undo_stack |-> undo_stack, panic |-> r.panic]
        Unwound(u) == [new |-> u.new, rng |-> rng, pressed |-> FALSE,
                       undo_stack |-> u.undo_stack, panic |-> FALSE]
    IN  IF Pressed(input) THEN Moved(EvaluatePlayerInput(g, board, rng, input))
        ELSE Unwound(Unwind(board, undo_stack, input))

\* a push on every change of the board, pressed or not
ShouldPushChanged(pressed, changed) == changed

\* engine.rs:132: the condition under which the pre-tick board is pushed
ShouldPush(pressed, changed) == pressed /\ changed

\* a commit that keeps the snapshots when a checkpoint is reached
CommitStackKept(board, undo_stack, checkpoint, push) ==
    IF push THEN PushUndo(undo_stack, board) ELSE undo_stack

\* engine.rs:125-139: the undo stack a tick that was not cancelled leaves
CommitStack(board, undo_stack, checkpoint, push) ==
    LET Pushed(cleared) == IF push THEN PushUndo(cleared, board) ELSE cleared
    IN  Pushed(IF checkpoint THEN <<>> ELSE undo_stack)

\* a commit that compares the board left with the board the rules started on
TickCommitFromSelected(board, sel, ev, pending_message) ==
    LET Commit(changed, push) ==
          [current_board |-> ev.board,
           undo_stack |-> CommitStack(board, sel.undo_stack, ev.triggered.checkpoint, push),
           pending_message |-> IF ev.triggered.message # None THEN ev.triggered.message
                               ELSE pending_message,
           changed |-> changed,
           pushed |-> IF push THEN 1 ELSE 0]
        Changed(changed) == Commit(changed, ShouldPush(sel.pressed, changed))
    IN  Changed(~BoardEq(ev.board, sel.new))

\* engine.rs:120-146: what a tick that was not cancelled leaves behind
TickCommit(board, sel, ev, pending_message) ==
    LET Commit(changed, push) ==
          [current_board |-> ev.board,
           undo_stack |-> CommitStack(board, sel.undo_stack, ev.triggered.checkpoint, push),
           pending_message |-> IF ev.triggered.message # None THEN ev.triggered.message
                               ELSE pending_message,
           changed |-> changed,
           pushed |-> IF push THEN 1 ELSE 0]
        Changed(changed) == Commit(changed, ShouldPush(sel.pressed, changed))
    IN  Changed(~BoardEq(ev.board, board))

\* engine.rs:143-161: the engine after the tick and the TickResult; c is what
\* the tick leaves behind, t the commands triggered
TickOutcome(level_num, ev, c) ==
    [current_board |-> c.current_board,
     undo_stack |-> c.undo_stack,
     pending_message |-> c.pending_message,
     rng |-> ev.rng,
     triggered |-> ev.triggered,
     pushed |-> c.pushed,
     panic |-> ev.panic,
     result |-> [changed |-> c.changed /\ ~ev.triggered.cancel,
                 completed_level |-> IF ev.triggered.win THEN <<level_num>> ELSE <<>>,
                 checkpoint |-> IF ev.triggered.checkpoint THEN <<c.current_board>>
                                ELSE <<>>,
                 accepting_input |-> ~ev.triggered.again,
                 sfx |-> ev.triggered.sfx]]

\* engine.rs:119-146: a cancelled tick keeps the board; the stack stays as the
\* selection left it
TickFinish(board, pending_message, level_num, sel, ev) ==
    TickOutcome(level_num, ev,
        IF ev.triggered.cancel
        THEN [current_board |-> board, undo_stack |-> sel.undo_stack,
              pending_message |-> pending_message, changed |-> FALSE, pushed |-> 0]
        ELSE TickCommit(board, sel, ev, pending_message))

\* engine.rs:115-117: the rules are evaluated on the selected board
TickEvaluate(g, board, pending_message, level_num, sel) ==
    TickFinish(board, pending_message, level_num, sel,
        IF sel.panic THEN EvalState(sel.new, sel.rng, NoCommands, FALSE, TRUE)
        ELSE Evaluate(g, sel.new, sel.rng))

\* engine.rs:75-162: tick on a map level without pending message
TickBoard(g, board, undo_stack, rng, pending_message, level_num, input) ==
    TickEvaluate(g, board, pending_message, level_num,
                 TickSelect(g, board, undo_stack, rng, input))

(***************************************************************************)
(* engine.rs: an Engine as a value, for specifications that run several    *)
(* engines side by side.                                                   *)
(***************************************************************************)
\* generators seeded from a source that varies from engine to engine
VaryingRngs == {NewRng, NewRng + 2}

\* the generators new_rng can return: the seed is a constant
NewRngs == {NewRng}

\* Engine::new with the generator it is given by new_rng
EngineOn(g, level_num, generator) ==
    [current_level |->
        IF g.levels[level_num + 1].kind = "Message"
        THEN [kind |-> "Message", board |-> BoardNew(0, 0),
              message |-> g.levels[level_num + 1].message]
        ELSE [kind |-> "Board", board |-> ToBoard(g, g.levels[level_num + 1]),
              message |-> None],
     current_level_num |-> level_num,
     undo_stack |-> <<>>,
     pending_message |-> None,
     rng |-> generator]

\* Engine::tick of the engine e: the engine after the tick and the TickResult
EngineTick(g, e, input) ==
    LET Took(r) == [engine |-> [e EXCEPT !.current_level.board = r.current_board,
                                         !.undo_stack = r.undo_stack,
                                         !.pending_message = r.pending_message,
                                         !.rng = r.rng],
                    result |-> r.result, panic |-> r.panic]
    IN  IF e.pending_message # None
        THEN [engine |-> [e EXCEPT !.pending_message =
                                      IF input = "Action" THEN None ELSE @],
              result |-> [TickResultEmpty EXCEPT !.changed = (input = "Action")],
              panic |-> FALSE]
        ELSE IF e.current_level.kind = "Message"
        THEN [engine |-> e,
              result |-> IF input = "Action"
                         THEN [TickResultEmpty EXCEPT
                                 !.changed = TRUE,
                                 !.completed_level = <<e.current_level_num>>]
                         ELSE TickResultEmpty,
              panic |-> FALSE]
        ELSE Took(TickBoard(g, e.current_level.board, e.undo_stack, e.rng,
                            e.pending_message, e.current_level_num, input))

(***************************************************************************)
(* cli.rs: the recording of a game played, and its replay.                 *)
(***************************************************************************)
\* EngineInput::to_key
ToKey(input) ==
    CASE input = "Up" -> "W"
      [] input = "Down" -> "S"
      [] input = "Left" -> "A"
      [] input = "Right" -> "D"
      [] input = "Action" -> "X"
      [] input = "Undo" -> "Z"
      [] input = "Restart" -> "R"

\* cli.rs:489-497: the character recorded for a tick that reported changed
RecordedChar(input, tr) ==
    IF input # None THEN ToKey(input)
    ELSE IF tr.accepting_input THEN "." ELSE ","

\* cli.rs:489-497: the recording after a tick
Recorded(inputs, input, tr) ==
    IF tr.changed THEN Append(inputs, RecordedChar(input, tr)) ELSE inputs

\* cli.rs:284-346: the input a piped character stands for
FromKey(key) ==
    CASE key \in {"w", "W"} -> "Up"
      [] key \in {"s", "S"} -> "Down"
      [] key \in {"a", "A"} -> "Left"
      [] key \in {"d", "D"} -> "Right"
      [] key \in {" ", "x", "X", "!"} -> "Action"
      [] key \in {"z", "Z", "u"} -> "Undo"
      [] key \in {"r", "R"} -> "Restart"
      [] OTHER -> None

\* the characters keys[k..] fed one tick each to the engine e, up to the tick
\* that completes the level
RECURSIVE ReplayFrom(_, _, _, _)
ReplayFrom(g, e, keys, k) ==
    LET After(r) == IF r.result.completed_level # <<>> \/ r.panic
                    THEN [engine |-> r.engine, panic |-> r.panic,
                          completed |-> r.result.completed_level # <<>>]
                    ELSE ReplayFrom(g, r.engine, keys, k + 1)
    IN  IF k > Len(keys) THEN [engine |-> e, panic |-> FALSE, completed |-> FALSE]
        ELSE After(EngineTick(g, e, FromKey(keys[k])))

(***************************************************************************)
(* The games played: inputs of the engine.  The rules of GameAuto and of   *)
(* GameLate are the ones of the tests of game.rs named with them.          *)
(***************************************************************************)
Player == SpriteState(0, 1)
Crate == SpriteState(1, 1)
Background == SpriteState(2, 0)
Star == SpriteState(3, 2)
Target == SpriteState(4, 2)

PlayerTile == Tile("And", <<Player>>)
CrateTile == Tile("And", <<Crate>>)
BackgroundTile == Tile("And", <<Background>>)
StarTile == Tile("And", <<Star>>)
TargetTile == Tile("And", <<Target>>)

\* a neighbor of one tile with a direction (None: any direction)
N1(tile, direction) == NeighborNew(<<TileWithModifier(tile, direction, FALSE)>>)

\* a neighbor of two tiles without direction
N2(tile1, tile2) ==
    NeighborNew(<<TileWithModifier(tile1, None, FALSE), TileWithModifier(tile2, None, FALSE)>>)

Command(name) == [NoCommands EXCEPT ![name] = TRUE]

MapLevel(rows) == [kind |-> "Map", map |-> rows, message |-> None]

MessageLevel(text) == [kind |-> "Message", map |-> <<>>, message |-> text]

GameData(player_tile, background_tile, rules, levels, win_conditions) ==
    [player_tile |-> player_tile, background_tile |-> background_tile,
     rules |-> rules, levels |-> levels, win_conditions |-> win_conditions]

\* one non-looping RuleLoop of one non-random group of the rules
OneGroup(rules) == <<RuleLoop(FALSE, <<RuleGroup(FALSE, rules)>>)>>

\* no rules: the player walks a 2x2 board
GameWalk ==
    GameData(PlayerTile, BackgroundTile, <<>>,
             <<MapLevel(<< <<PlayerTile, BackgroundTile>>,
                           <<BackgroundTile, BackgroundTile>> >>)>>,
             <<>>)

\* no rules: the player steps between the two cells of a 2x1 board
GameStep ==
    GameData(PlayerTile, BackgroundTile, <<>>,
             <<MapLevel(<< <<PlayerTile, BackgroundTile>> >>)>>,
             <<>>)

\* RIGHT [ RIGHT Player | Crate ] -> [ RIGHT Player | RIGHT Crate ]; won with a
\* crate on the target; a message level follows
GamePush ==
    GameData(PlayerTile, BackgroundTile,
             OneGroup(<<
                Rule(<<BracketNew("Right", <<N1(PlayerTile, "Right"), N1(CrateTile, None)>>)>>,
                     <<BracketNew("Right", <<N1(PlayerTile, "Right"), N1(CrateTile, "Right")>>)>>,
                     NoCommands, FALSE)>>),
             <<MapLevel(<< <<PlayerTile, CrateTile, TargetTile>> >>),
               MessageLevel("bye")>>,
             <<WinOn("Some", CrateTile, TargetTile)>>)

\* [ Player ] -> [ RIGHT Player ]   (tests::game_player_did_move_eventually)
GameAuto ==
    GameData(PlayerTile, BackgroundTile,
             OneGroup(<<
                Rule(<<BracketNew("Right", <<N1(PlayerTile, None)>>)>>,
                     <<BracketNew("Right", <<N1(PlayerTile, "Right")>>)>>,
                     NoCommands, FALSE)>>),
             <<MapLevel(<< <<PlayerTile, BackgroundTile, BackgroundTile>> >>)>>,
             <<>>)

\* RIGHT [ STATIONARY Player | Crate ] -> CANCEL: a tick is cancelled when
\* the player rests left of the crate
GameCancel ==
    GameData(PlayerTile, BackgroundTile,
             OneGroup(<<
                Rule(<<BracketNew("Right", <<N1(PlayerTile, "Stationary"), N1(CrateTile, None)>>)>>,
                     <<>>, Command("cancel"), FALSE)>>),
             <<MapLevel(<< <<BackgroundTile, PlayerTile, CrateTile>> >>)>>,
             <<>>)

\* [ Player ] -> [ RIGHT Player ]  and  LATE [ Player ] -> [ Star ]
\* (tests::evals_late_rules_after_moving), won when no player is left
GameLate ==
    GameData(PlayerTile, BackgroundTile,
             OneGroup(<<
                Rule(<<BracketNew("Right", <<N1(PlayerTile, None)>>)>>,
                     <<BracketNew("Right", <<N1(PlayerTile, "Right")>>)>>,
                     NoCommands, FALSE),
                Rule(<<BracketNew("Right", <<N1(PlayerTile, None)>>)>>,
                     <<BracketNew("Right", <<N1(StarTile, None)>>)>>,
                     NoCommands, TRUE)>>),
             <<MapLevel(<< <<PlayerTile, BackgroundTile>> >>)>>,
             <<WinSimple("No", PlayerTile)>>)

\* LATE [ Player ] -> [ ACTION Player ]: a late rule that sets a direction
GameLateDir ==
    GameData(PlayerTile, BackgroundTile,
             OneGroup(<<
                Rule(<<BracketNew("Right", <<N1(PlayerTile, None)>>)>>,
                     <<BracketNew("Right", <<N1(PlayerTile, "Action")>>)>>,
                     NoCommands, TRUE)>>),
             <<MapLevel(<< <<PlayerTile, BackgroundTile>> >>)>>,
             <<>>)

\* LATE [ Player Star ] -> CHECKPOINT  and  LATE [ Player Target ] -> MESSAGE
GameQuest ==
    GameData(PlayerTile, BackgroundTile,
             OneGroup(<<
                Rule(<<BracketNew("Right", <<N2(PlayerTile, StarTile)>>)>>,
                     <<>>, Command("checkpoint"), TRUE),
                Rule(<<BracketNew("Right", <<N2(PlayerTile, TargetTile)>>)>>,
                     <<>>, [NoCommands EXCEPT !.message = "hello"], TRUE)>>),
             <<MapLevel(<< <<PlayerTile, StarTile, TargetTile>> >>)>>,
             <<>>)

\* [ Player | Crate ] -> CANCEL WIN CHECKPOINT SFX AGAIN: a rule that cancels
\* the turn and triggers other commands with it
GameVeto ==
    GameData(PlayerTile, BackgroundTile,
             OneGroup(<<
                Rule(<<BracketNew("Right", <<N1(PlayerTile, None), N1(CrateTile, None)>>)>>,
                     <<>>,
                     [NoCommands EXCEPT !.cancel = TRUE, !.win = TRUE, !.checkpoint = TRUE,
                                        !.sfx = TRUE, !.again = TRUE],
                     FALSE)>>),
             <<MapLevel(<< <<PlayerTile, CrateTile>> >>)>>,
             <<>>)

\* no rules, two map levels: each is won with the player on the target
GameTour ==
    GameData(PlayerTile, BackgroundTile, <<>>,
             <<MapLevel(<< <<PlayerTile, BackgroundTile, TargetTile>> >>),
               MapLevel(<< <<TargetTile, PlayerTile>> >>)>>,
             <<WinOn("Some", PlayerTile, TargetTile)>>)

\* LATE [ Player Target ] -> RESTART
GameRetry ==
    GameData(PlayerTile, BackgroundTile,
             OneGroup(<<
                Rule(<<BracketNew("Right", <<N2(PlayerTile, TargetTile)>>)>>,
                     <<>>, Command("restart"), TRUE)>>),
             <<MapLevel(<< <<PlayerTile, TargetTile>> >>)>>,
             <<>>)

\* RANDOM [ Player ] -> [ Player Star ] + [ Player ] -> [ Player Target ]: a
\* random group; the star and the target share a collision layer
GameDice ==
    GameData(PlayerTile, BackgroundTile,
             <<RuleLoop(FALSE, <<RuleGroup(TRUE, <<
                Rule(<<BracketNew("Right", <<N1(PlayerTile, None)>>)>>,
                     <<BracketNew("Right", <<N2(PlayerTile, StarTile)>>)>>,
                     NoCommands, FALSE),
                Rule(<<BracketNew("Right", <<N1(PlayerTile, None)>>)>>,
                     <<BracketNew("Right", <<N2(PlayerTile, TargetTile)>>)>>,
                     NoCommands, FALSE)>>)>>)>>,
             <<MapLevel(<< <<PlayerTile, BackgroundTile>> >>)>>,
             <<WinOn("All", TargetTile, PlayerTile), WinOn("Some", PlayerTile, TargetTile)>>)

\* the random group of GameDice on two levels, each completed when the
\* player stands on a target
GameRoll ==
    GameData(PlayerTile, BackgroundTile,
             <<RuleLoop(FALSE, <<RuleGroup(TRUE, <<
                Rule(<<BracketNew("Right", <<N1(PlayerTile, None)>>)>>,
                     <<BracketNew("Right", <<N2(PlayerTile, StarTile)>>)>>,
                     NoCommands, FALSE),
                Rule(<<BracketNew("Right", <<N1(PlayerTile, None)>>)>>,
                     <<BracketNew("Right", <<N2(PlayerTile, TargetTile)>>)>>,
                     NoCommands, FALSE)>>)>>)>>,
             <<MapLevel(<< <<PlayerTile, BackgroundTile>> >>),
               MapLevel(<< <<BackgroundTile, PlayerTile>> >>)>>,
             <<WinOn("Some", PlayerTile, TargetTile)>>)

\* [ ACTION Player ] -> WIN
GameGoal ==
    GameData(PlayerTile, BackgroundTile,
             OneGroup(<<
                Rule(<<BracketNew("Right", <<N1(PlayerTile, "Action")>>)>>,
                     <<>>, Command("win"), FALSE)>>),
             <<MapLevel(<< <<PlayerTile, BackgroundTile>> >>)>>,
             <<>>)

Games ==
    [walk |-> GameWalk, step |-> GameStep, push |-> GamePush, auto |-> GameAuto,
     cancel |-> GameCancel, late |-> GameLate, latedir |-> GameLateDir,
     tour |-> GameTour, retry |-> GameRetry, dice |-> GameDice, goal |-> GameGoal,
     quest |-> GameQuest, veto |-> GameVeto, roll |-> GameRoll]

\* the games an engine is created with
GameIds ==
    {"walk", "push", "auto", "cancel", "late", "latedir", "quest", "veto", "tour", "retry",
     "roll"}

(***************************************************************************)
(* The state: the engine's fields, and a record of the last call.          *)
(***************************************************************************)
VARIABLES
    game,               \* the name of the game the engine was created with
    current_level,      \* BoardOrMessage: [kind, board, message]
    current_level_num,
    undo_stack,
    pending_message,
    rng,
    status,             \* playing, completed (next_level is due), finished, panicked
    budget,             \* the ticks left to explore
    last,               \* the last call: its input, the state before it, its outcome
    prev                \* the call before the last one, in short

vars == <<game, current_level, current_level_num, undo_stack, pending_message, rng,
          status, budget, last, prev>>

GameOf == Games[game]

EmptyBoard == BoardNew(0, 0)

\* engine.rs:27-31 and 202-206: the BoardOrMessage of a level
LevelToCurrent(g, level) ==
    IF level.kind = "Message"
    THEN [kind |-> "Message", board |-> EmptyBoard, message |-> level.message]
    ELSE [kind |-> "Board", board |-> ToBoard(g, level), message |-> None]

NoCall ==
    [kind |-> "init", input |-> None, evaluated |-> FALSE,
     pre_level |-> [kind |-> "Message", board |-> EmptyBoard, message |-> None],
     pre_stack |-> <<>>, pre_message |-> None, pre_rng |-> 0,
     triggered |-> NoCommands, pushed |-> 0, result |-> TickResultEmpty,
     returned |-> FALSE]

Short(call) ==
    [kind |-> call.kind, input |-> call.input, evaluated |-> call.evaluated,
     pre_level |-> call.pre_level, pre_message |-> call.pre_message,
     cancel |-> call.triggered.cancel, changed |-> call.result.changed]

\* an engine playing game id, its fields as given, with the ticks to explore
EngineIs(id, level, stack, generator) ==
    /\ game = id
    /\ current_level = level
    /\ current_level_num = 0
    /\ undo_stack = stack
    /\ pending_message = None
    /\ rng = generator
    /\ status = "playing"
    /\ budget = MaxTicks
    /\ last = NoCall
    /\ prev = Short(NoCall)

\* Engine::new
EngineNew(id, g) == EngineIs(id, LevelToCurrent(g, g.levels[1]), <<>>, NewRng)

\* the board, undo stack and generator of an engine e that is played, stepping
\* right and left in turn, until its undo stack holds n boards
RECURSIVE Paced(_, _, _)
Paced(g, e, n) ==
    LET After(r) == Paced(g, [board |-> r.current_board, undo_stack |-> r.undo_stack,
                              rng |-> r.rng], n)
    IN  IF Len(e.undo_stack) >= n THEN e
        ELSE After(TickBoard(g, e.board, e.undo_stack, e.rng, None, 0,
                             IF Len(e.undo_stack) % 2 = 0 THEN "Right" ELSE "Left"))

\* Paced, evaluated in stretches of twenty ticks to keep the evaluation shallow
RECURSIVE PacedTo(_, _, _)
PacedTo(g, e, n) == IF n > 20 THEN Paced(g, PacedTo(g, e, n - 20), n) ELSE Paced(g, e, n)

\* an engine that has played the game of two cells until its undo stack holds
\* StartPushes boards
EnginePaced ==
    LET Is(e) == EngineIs("step", [kind |-> "Board", board |-> e.board, message |-> None],
                          e.undo_stack, e.rng)
    IN  Is(PacedTo(GameStep, [board |-> ToBoard(GameStep, GameStep.levels[1]),
                              undo_stack |-> <<>>, rng |-> NewRng], StartPushes))

Init == (\E id \in GameIds : EngineNew(id, Games[id])) \/ EnginePaced

\* what the call about to be made will be recorded with
Call(kind, input, evaluated) ==
    [NoCall EXCEPT !.kind = kind, !.input = input, !.evaluated = evaluated,
                   !.pre_level = current_level, !.pre_stack = undo_stack,
                   !.pre_message = pending_message, !.pre_rng = rng]

\* a tick is made of an engine that runs
TickStart ==
    /\ status = "playing"
    /\ budget > 0
    /\ budget' = budget - 1
    /\ prev' = Short(last)
    /\ UNCHANGED <<game, current_level_num>>

\* a pending message that any input dismisses
TickPendingAnyInput(input) ==
    /\ TickStart
    /\ pending_message # None
    /\ pending_message' = None
    /\ last' = [Call("tick", input, FALSE) EXCEPT
                  !.result = [TickResultEmpty EXCEPT !.changed = TRUE]]
    /\ UNCHANGED <<current_level, undo_stack, rng, status>>

\* engine.rs:65-73: a message is pending; Action alone dismisses it
TickPending(input) ==
    /\ TickStart
    /\ pending_message # None
    /\ pending_message' = IF input = "Action" THEN None ELSE pending_message
    /\ last' = [Call("tick", input, FALSE) EXCEPT
                  !.result = [TickResultEmpty EXCEPT !.changed = (input = "Action")]]
    /\ UNCHANGED <<current_level, undo_stack, rng, status>>

\* engine.rs:163-168: a message level; Action alone completes it
TickMessage(input) ==
    /\ TickStart
    /\ pending_message = None
    /\ current_level.kind = "Message"
    /\ last' = [Call("tick", input, FALSE) EXCEPT
                  !.result = IF input = "Action"
                             THEN [TickResultEmpty EXCEPT
                                     !.changed = TRUE,
                                     !.completed_level = <<current_level_num>>]
                             ELSE TickResultEmpty]
    /\ status' = IF input = "Action" THEN "completed" ELSE status
    /\ UNCHANGED <<current_level, undo_stack, pending_message, rng>>

\* engine.rs:75-162: the engine takes the outcome r of the tick on its board
TickTakes(input, r) ==
    /\ current_level' = [current_level EXCEPT !.board = r.current_board]
    /\ undo_stack' = r.undo_stack
    /\ pending_message' = r.pending_message
    /\ rng' = r.rng
    /\ status' = IF r.panic THEN "panicked"
                 ELSE IF r.result.completed_level # <<>> THEN "completed"
                 ELSE status
    /\ last' = [Call("tick", input, TRUE) EXCEPT
                  !.triggered = r.triggered, !.pushed = r.pushed, !.result = r.result]

\* engine.rs:75-162: a map level
TickMap(input) ==
    /\ TickStart
    /\ pending_message = None
    /\ current_level.kind = "Board"
    /\ TickTakes(input, TickBoard(GameOf, current_level.board, undo_stack, rng,
                                  pending_message, current_level_num, input))

\* Engine::tick
Tick(input) == TickPending(input) \/ TickMessage(input) \/ TickMap(input)

\* next_level without undo_stack.clear()
NextLevelKeepsStack(g) ==
    /\ current_level_num' = (current_level_num + 1) % 256
    /\ pending_message' = None
    /\ prev' = Short(last)
    /\ IF current_level_num' >= Len(g.levels)
       THEN /\ status' = "finished"
            /\ last' = [Call("next_level", None, FALSE) EXCEPT !.returned = FALSE]
            /\ UNCHANGED current_level
       ELSE /\ current_level' = LevelToCurrent(g, g.levels[current_level_num' + 1])
            /\ status' = "playing"
            /\ last' = [Call("next_level", None, FALSE) EXCEPT !.returned = TRUE]
    /\ UNCHANGED <<game, rng, budget, undo_stack>>

\* Engine::next_level of an engine playing g
NextLevelOf(g) ==
    /\ current_level_num' = (current_level_num + 1) % 256
    /\ pending_message' = None
    /\ prev' = Short(last)
    /\ IF current_level_num' >= Len(g.levels)
       THEN /\ status' = "finished"
            /\ last' = [Call("next_level", None, FALSE) EXCEPT !.returned = FALSE]
            /\ UNCHANGED <<current_level, undo_stack>>
       ELSE /\ current_level' = LevelToCurrent(g, g.levels[current_level_num' + 1])
            /\ undo_stack' = <<>>
            /\ status' = "playing"
            /\ last' = [Call("next_level", None, FALSE) EXCEPT !.returned = TRUE]
    /\ UNCHANGED <<game, rng, budget>>

\* Engine::next_level, which the game loop calls when a tick completed the level
NextLevel ==
    /\ status = "completed"
    /\ NextLevelOf(GameOf)

Next == (\E input \in TickInputs : Tick(input)) \/ NextLevel

Spec == Init /\ [][Next]_vars

(***************************************************************************)
(* Motion resolution on its own: evaluate_post applied to boards of 2x2    *)
(* or 3x1 cells on which up to MaxMovers of the sprites below stand, each  *)
(* with any direction a rule can leave on it.                              *)
(***************************************************************************)
PostSprites == <<Player, Crate, Star>>

PostDirections == WantsToMove \ {"RandomDir"}

\* a sprite is left out (<<>>) or stands on a cell with a direction
PostPlaces == {<<>>} \cup {<<i, d>> : i \in 1..4, d \in PostDirections}

\* the sprites i.. placed on the board as the draw says
RECURSIVE PostPlaced(_, _, _)
PostPlaced(board, draw, i) ==
    IF i > Len(PostSprites) THEN board
    ELSE IF draw[i] = <<>> THEN PostPlaced(board, draw, i + 1)
    ELSE PostPlaced(BoardAddSprite(board, IndexToPos(board, draw[i][1] - 1),
                                   PostSprites[i], draw[i][2]).board,
                    draw, i + 1)

\* a draw puts at most MaxMovers sprites, and one sprite of a collision layer
\* on a cell
PostDraws ==
    {draw \in [1..Len(PostSprites) -> PostPlaces] :
        /\ Cardinality({i \in DOMAIN draw : draw[i] # <<>>}) <= MaxMovers
        /\ \A i, j \in DOMAIN draw :
              (/\ i < j
               /\ PostSprites[i].collision_layer = PostSprites[j].collision_layer
               /\ draw[i] # <<>>
               /\ draw[j] # <<>>) => draw[i][1] # draw[j][1]}

\* the boards drawn: two rows of two cells, or one row of three on which the
\* player and the crate stand
PostShapes == {<<2, 2>>, <<3, 1>>}

InitPost ==
    /\ game = "walk"
    /\ \E draw \in PostDraws, shape \in PostShapes :
          /\ \A i \in DOMAIN draw : draw[i] # <<>> => draw[i][1] <= shape[1] * shape[2]
          /\ shape = <<3, 1>> => draw[3] = <<>>
          /\ current_level = [kind |-> "Board",
                              board |-> PostPlaced(BoardNew(shape[1], shape[2]), draw, 1),
                              message |-> None]
    /\ current_level_num = 0
    /\ undo_stack = <<>>
    /\ pending_message = None
    /\ rng = NewRng
    /\ status = "drawn"
    /\ budget = 1
    /\ last = NoCall
    /\ prev = Short(NoCall)

\* GameData::evaluate_post on the board drawn
ResolveMotion ==
    /\ status = "drawn"
    /\ current_level' = [current_level EXCEPT !.board = EvaluatePost(@)]
    /\ status' = "resolved"
    /\ last' = Call("evaluate_post", None, TRUE)
    /\ prev' = Short(last)
    /\ budget' = 0
    /\ UNCHANGED <<game, current_level_num, undo_stack, pending_message, rng>>

SpecPost == InitPost /\ [][ResolveMotion]_vars

(***************************************************************************)
(* SpecPlay: a level played by two engines side by side and recorded as    *)
(* the game loop of cli.rs records it; when the level is completed the     *)
(* recording is replayed on a fresh engine.  Here last holds the first     *)
(* engine, its last TickResult and the recording, prev holds the second    *)
(* engine and its last TickResult, and the engine variables hold the       *)
(* engine of the replay.                                                   *)
(***************************************************************************)
PlayIds == {"walk", "push", "quest", "tour", "dice", "goal"}

\* a fresh engine and nothing played
Fresh(generator) ==
    [engine |-> EngineOn(GameOf, 0, generator), result |-> TickResultEmpty,
     inputs |-> <<>>, input |-> None, ticks |-> 0, panic |-> FALSE]

\* the engine variables hold the engine e
EngineHeld(e) ==
    /\ current_level = e.current_level
    /\ current_level_num = e.current_level_num
    /\ undo_stack = e.undo_stack
    /\ pending_message = e.pending_message
    /\ rng = e.rng

InitPlay ==
    /\ game \in PlayIds
    /\ \E generator \in NewRngs : last = Fresh(generator)
    /\ \E generator \in NewRngs : prev = Fresh(generator)
    /\ \E generator \in NewRngs : EngineHeld(EngineOn(GameOf, 0, generator))
    /\ status = "playing"
    /\ budget = MaxTicks

\* what a played engine p holds after its tick r with the input
Played(p, input, r) ==
    [engine |-> r.engine, result |-> r.result,
     inputs |-> Recorded(p.inputs, input, r.result), input |-> input,
     ticks |-> p.ticks + 1, panic |-> r.panic]

\* cli.rs:464-497: both engines tick with the input; the tick is recorded
PlayTick(input) ==
    /\ status = "playing"
    /\ budget > 0
    /\ budget' = budget - 1
    /\ last' = Played(last, input, EngineTick(GameOf, last.engine, input))
    /\ prev' = Played(prev, input, EngineTick(GameOf, prev.engine, input))
    /\ status' = IF last'.panic THEN "panicked"
                 ELSE IF last'.result.completed_level # <<>> THEN "completed"
                 ELSE status
    /\ UNCHANGED <<game, current_level, current_level_num, undo_stack,
                   pending_message, rng>>

\* the replay r is held by the engine variables
Replayed(r) ==
    /\ current_level' = r.engine.current_level
    /\ current_level_num' = r.engine.current_level_num
    /\ undo_stack' = r.engine.undo_stack
    /\ pending_message' = r.engine.pending_message
    /\ rng' = r.engine.rng
    /\ status' = IF r.completed THEN "replayed" ELSE "stuck"

\* the recording of the completed level is fed to the fresh engine
Replay ==
    /\ status = "completed"
    /\ Replayed(ReplayFrom(GameOf,
                           [current_level |-> current_level,
                            current_level_num |-> current_level_num,
                            undo_stack |-> undo_stack,
                            pending_message |-> pending_message, rng |-> rng],
                           last.inputs, 1))
    /\ UNCHANGED <<game, budget, last, prev>>

NextPlay == (\E input \in TickInputs : PlayTick(input)) \/ Replay

SpecPlay == InitPlay /\ [][NextPlay]_vars

(***************************************************************************)
(* SpecWin: GameData::evaluate on drawn boards, for games that declare     *)
(* drawn win conditions.  Here the variable game holds what was drawn of   *)
(* the game: its rules and its win conditions.                             *)
(***************************************************************************)
MovableTile == Tile("Or", <<Player, Crate>>)

WinTiles == {PlayerTile, StarTile, MovableTile}

\* every win condition the source can evaluate over WinTiles
WinConditions ==
    {WinSimple(q, t) : q \in {"No", "Any", "Some"}, t \in WinTiles}
    \cup {w \in {WinOn(q, pair[1], pair[2]) :
                   q \in {"All", "No", "Any", "Some"}, pair \in WinTiles \X WinTiles} :
            w.tile # w.on_tile}

\* the conditions drawn after the first one of a game
WinSeconds == {WinSimple("Some", PlayerTile), WinOn("All", MovableTile, StarTile)}

\* the lists of win conditions drawn: none, or one followed by WinSeconds
WinLists ==
    {<<>>} \cup
    UNION {{<<w>> \o rest : w \in WinConditions, rest \in [1..n -> WinSeconds]} :
             n \in 0..(MaxWins - 1)}

\* the rules drawn: none; [ Player ] -> WIN; LATE [ Player Star ] -> [ Player ];
\* [ Crate ] -> CANCEL
WinRules ==
    [none   |-> <<>>,
     win    |-> OneGroup(<<Rule(<<BracketNew("Right", <<N1(PlayerTile, None)>>)>>,
                                <<>>, Command("win"), FALSE)>>),
     late   |-> OneGroup(<<Rule(<<BracketNew("Right", <<N2(PlayerTile, StarTile)>>)>>,
                                <<BracketNew("Right", <<N1(PlayerTile, None)>>)>>,
                                NoCommands, TRUE)>>),
     cancel |-> OneGroup(<<Rule(<<BracketNew("Right", <<N1(CrateTile, None)>>)>>,
                                <<>>, Command("cancel"), FALSE)>>)]

\* the GameData of a drawn game
WinGame(drawn) ==
    GameData(PlayerTile, BackgroundTile, WinRules[drawn.rules], <<>>, drawn.win_conditions)

\* Player, Crate and Star are left out or stand still on a cell, one sprite
\* of a collision layer on a cell
WinDraws ==
    {draw \in [1..Len(PostSprites) -> {<<>>} \cup {<<i, "Stationary">> : i \in 1..4}] :
        \A i, j \in DOMAIN draw :
           (/\ i < j
            /\ PostSprites[i].collision_layer = PostSprites[j].collision_layer
            /\ draw[i] # <<>>
            /\ draw[j] # <<>>) => draw[i][1] # draw[j][1]}

InitWin ==
    /\ \E rules \in DOMAIN WinRules, wins \in WinLists :
          game = [rules |-> rules, win_conditions |-> wins]
    /\ \E draw \in WinDraws :
          current_level = [kind |-> "Board",
                           board |-> PostPlaced(BoardNew(2, 2), draw, 1),
                           message |-> None]
    /\ current_level_num = 0
    /\ undo_stack = <<>>
    /\ pending_message = None
    /\ rng = NewRng
    /\ status = "drawn"
    /\ budget = 1
    /\ last = NoCall
    /\ prev = Short(NoCall)

\* the engine after GameData::evaluate returned ev
EvaluatedTo(ev) ==
    /\ current_level' = [current_level EXCEPT !.board = ev.board]
    /\ rng' = ev.rng
    /\ last' = [Call("evaluate", None, TRUE) EXCEPT !.triggered = ev.triggered]

\* GameData::evaluate of the drawn game on the board drawn
EvaluateDrawn ==
    /\ status = "drawn"
    /\ EvaluatedTo(Evaluate(WinGame(game), current_level.board, rng))
    /\ status' = "evaluated"
    /\ prev' = Short(last)
    /\ budget' = 0
    /\ UNCHANGED <<game, current_level_num, undo_stack, pending_message>>

SpecWin == InitWin /\ [][EvaluateDrawn]_vars

(***************************************************************************)
(* SpecRule: Rule::evaluate of a drawn rule on a drawn board of one row.   *)
(* Here the variable game holds what was drawn of the call: the rule, the  *)
(* eval_once flag and the commands triggered before the call.              *)
(***************************************************************************)
EmptyTile == Tile("And", <<>>)

\* [ Crate | Crate ] -> [ Crate | ]
\* [ Crate ] [ Crate ] -> [ ] [ Crate ]
\* [ Player ] -> [ Player ] SFX
\* [ Player ] [ Star ] -> AGAIN
\* [ Player | Star ] -> [ Star | Player ]
\* [ Crate | ... | ] -> [ Crate | ... | Star ]
RuleFixtures ==
    [collapse |-> Rule(<<BracketNew("Right", <<N1(CrateTile, None), N1(CrateTile, None)>>)>>,
                       <<BracketNew("Right", <<N1(CrateTile, None), NeighborNew(<<>>)>>)>>,
                       NoCommands, FALSE),
     twice    |-> Rule(<<BracketNew("Right", <<N1(CrateTile, None)>>),
                         BracketNew("Right", <<N1(CrateTile, None)>>)>>,
                       <<BracketNew("Right", <<NeighborNew(<<>>)>>),
                         BracketNew("Right", <<N1(CrateTile, None)>>)>>,
                       NoCommands, FALSE),
     same     |-> Rule(<<BracketNew("Right", <<N1(PlayerTile, None)>>)>>,
                       <<BracketNew("Right", <<N1(PlayerTile, None)>>)>>,
                       Command("sfx"), FALSE),
     both     |-> Rule(<<BracketNew("Right", <<N1(PlayerTile, None)>>),
                         BracketNew("Down", <<N1(StarTile, None)>>)>>,
                       <<>>, Command("again"), FALSE),
     swap     |-> Rule(<<BracketNew("Right", <<N1(PlayerTile, None), N1(StarTile, None)>>)>>,
                       <<BracketNew("Right", <<N1(StarTile, None), N1(PlayerTile, None)>>)>>,
                       Command("win"), FALSE),
     beam     |-> Rule(<<BracketNewEllipsis("Right", <<N1(CrateTile, None)>>,
                                            <<NeighborNew(<<>>)>>)>>,
                       <<BracketNewEllipsis("Right", <<N1(CrateTile, None)>>,
                                            <<N1(StarTile, None)>>)>>,
                       NoCommands, FALSE)]

\* the rule of the call drawn
RuleDrawn == RuleFixtures[game.rule]

\* what a cell of a drawn board holds
RuleCells ==
    {Tile("And", sprites) :
       sprites \in {<<>>, <<Player>>, <<Crate>>, <<Star>>, <<Player, Star>>, <<Crate, Star>>}}

\* the commands triggered before the call
RuleTriggered == {NoCommands, Command("checkpoint")}

\* the boards drawn: one row of three cells, or two rows of two cells that
\* hold a player, a star or nothing
RuleGrids ==
    {<<row>> : row \in [1..3 -> RuleCells]}
    \cup {<<top, bottom>> : top \in [1..2 -> {EmptyTile, PlayerTile, StarTile}],
                            bottom \in [1..2 -> {EmptyTile, PlayerTile, StarTile}]}

InitRule ==
    /\ \E id \in DOMAIN RuleFixtures, once \in BOOLEAN, t \in RuleTriggered :
          game = [rule |-> id, eval_once |-> once, triggered |-> t]
    /\ \E grid \in RuleGrids :
          current_level = [kind |-> "Board",
                           board |-> FromTiles(grid, EmptyTile),
                           message |-> None]
    /\ current_level_num = 0
    /\ undo_stack = <<>>
    /\ pending_message = None
    /\ rng = NewRng
    /\ status = "drawn"
    /\ budget = 1
    /\ last = NoCall
    /\ prev = Short(NoCall)

\* the engine after Rule::evaluate returned r
RuledTo(r) ==
    /\ current_level' = [current_level EXCEPT !.board = r.board]
    /\ rng' = r.rng
    /\ last' = [Call("rule_evaluate", None, TRUE) EXCEPT
                  !.triggered = r.triggered,
                  !.returned = r.changed,
                  !.result = [changed |-> r.changed, applied |-> r.applied]]

\* Rule::evaluate of the drawn rule on the board drawn
EvaluateRule ==
    /\ status = "drawn"
    /\ RuledTo(RuleEvaluate(RuleDrawn, current_level.board, rng, game.triggered,
                            game.eval_once))
    /\ status' = "ruled"
    /\ prev' = Short(last)
    /\ budget' = 0
    /\ UNCHANGED <<game, current_level_num, undo_stack, pending_message>>

SpecRule == InitRule /\ [][EvaluateRule]_vars

(***************************************************************************)
(* SpecGroup: RuleGroup::evaluate of a drawn group on a drawn board of one *)
(* row, one step for every call of Rule::evaluate it makes.  Here the      *)
(* variable game holds the group drawn and the late flag of the call, and  *)
(* last holds the local variables of the call.  An observer marks one      *)
(* state of the call, early in it, and prev holds the state marked: a call *)
(* that comes back to a state it has been in loops forever.                *)
(***************************************************************************)
\* how many values the generator has given when the steps stop drawing from it
MaxDraws == 9

\* how many passes the call may have started when its state is marked
MaxMarked == 1

\* crawl:  [ Player | ] -> [ | Player ]
\* mixed:  LATE [ Star ] -> [ ]  +  [ Crate ] -> [ Star ]
\* chain:  [ Star ] -> [ ]  +  [ Crate ] -> [ Star ]
\* swap:   [ Player ] [ Crate ] -> [ Crate ] [ Player ]
\* flip:   [ Player | Crate | Star ] -> [ Player | Crate | Target ]
\*       + [ Player | Crate | Target ] -> [ Player | Crate | Star ]
\* spin:   [ Player ] -> [ RANDOMDIR Player ]
\* dice:   RANDOM [ Crate ] -> [ ]  +  [ Player ] -> [ Player Star ]
GroupFixtures ==
    [crawl |-> RuleGroup(FALSE, <<
        Rule(<<BracketNew("Right", <<N1(PlayerTile, None), NeighborNew(<<>>)>>)>>,
             <<BracketNew("Right", <<NeighborNew(<<>>), N1(PlayerTile, None)>>)>>,
             NoCommands, FALSE)>>),
     mixed |-> RuleGroup(FALSE, <<
        Rule(<<BracketNew("Right", <<N1(StarTile, None)>>)>>,
             <<BracketNew("Right", <<NeighborNew(<<>>)>>)>>,
             NoCommands, TRUE),
        Rule(<<BracketNew("Right", <<N1(CrateTile, None)>>)>>,
             <<BracketNew("Right", <<N1(StarTile, None)>>)>>,
             Command("sfx"), FALSE)>>),
     chain |-> RuleGroup(FALSE, <<
        Rule(<<BracketNew("Right", <<N1(StarTile, None)>>)>>,
             <<BracketNew("Right", <<NeighborNew(<<>>)>>)>>,
             NoCommands, FALSE),
        Rule(<<BracketNew("Right", <<N1(CrateTile, None)>>)>>,
             <<BracketNew("Right", <<N1(StarTile, None)>>)>>,
             NoCommands, FALSE)>>),
     swap |-> RuleGroup(FALSE, <<
        Rule(<<BracketNew("Right", <<N1(PlayerTile, None)>>),
               BracketNew("Right", <<N1(CrateTile, None)>>)>>,
             <<BracketNew("Right", <<N1(CrateTile, None)>>),
               BracketNew("Right", <<N1(PlayerTile, None)>>)>>,
             NoCommands, FALSE)>>),
     flip |-> RuleGroup(FALSE, <<
        Rule(<<BracketNew("Right", <<N1(PlayerTile, None), N1(CrateTile, None),
                                     N1(StarTile, None)>>)>>,
             <<BracketNew("Right", <<N1(PlayerTile, None), N1(CrateTile, None),
                                     N1(TargetTile, None)>>)>>,
             NoCommands, FALSE),
        Rule(<<BracketNew("Right", <<N1(PlayerTile, None), N1(CrateTile, None),
                                     N1(TargetTile, None)>>)>>,
             <<BracketNew("Right", <<N1(PlayerTile, None), N1(CrateTile, None),
                                     N1(StarTile, None)>>)>>,
             NoCommands, FALSE)>>),
     spin |-> RuleGroup(FALSE, <<
        Rule(<<BracketNew("Right", <<N1(PlayerTile, None)>>)>>,
             <<BracketNew("Right", <<N1(PlayerTile, "RandomDir")>>)>>,
             NoCommands, FALSE)>>),
     dice |-> RuleGroup(TRUE, <<
        Rule(<<BracketNew("Right", <<N1(CrateTile, None)>>)>>,
             <<BracketNew("Right", <<NeighborNew(<<>>)>>)>>,
             NoCommands, FALSE),
        Rule(<<BracketNew("Right", <<N1(PlayerTile, None)>>)>>,
             <<BracketNew("Right", <<N2(PlayerTile, StarTile)>>)>>,
             NoCommands, FALSE)>>)]

\* the group of the call drawn
GroupDrawn == GroupFixtures[game.group]

\* what a cell of a drawn board holds
GroupCells == {EmptyTile, PlayerTile, CrateTile, StarTile}

\* the local variables of RuleGroup::evaluate when it is called on the board
GroupLocals(board) ==
    [first |-> board, triggered |-> NoCommands, before |-> NoCommands,
     iteration |-> 0, i |-> 1, board_changed |-> FALSE,
     board_changed_this_iter |-> FALSE, rnd |-> 0, offset |-> 0, ret |-> FALSE,
     evaluations |-> 0, changes |-> 0]

InitGroup ==
    /\ \E id \in DOMAIN GroupFixtures, late \in BOOLEAN :
          game = [group |-> id, late |-> late]
    /\ \E row \in [1..3 -> GroupCells] :
          /\ current_level = [kind |-> "Board",
                              board |-> FromTiles(<<row>>, EmptyTile),
                              message |-> None]
          /\ last = GroupLocals(FromTiles(<<row>>, EmptyTile))
    /\ current_level_num = 0
    /\ undo_stack = <<>>
    /\ pending_message = None
    /\ rng = NewRng
    /\ status = "called"
    /\ budget = 0
    /\ prev = [marked |-> FALSE, left |-> FALSE, state |-> <<>>]

\* the state of the call: the board, the generator, where the call is and
\* its local variables
CallState ==
    <<current_level.board, rng, status, [last EXCEPT !.evaluations = 0, !.changes = 0]>>

\* a step of the call leaves the state marked, if one is
CallStepped == prev' = [prev EXCEPT !.left = prev.marked]

\* rule.rs:271-273 and 293-296: the call starts; a random group draws the rule
\* it starts with
GroupCall ==
    LET Drew(d) == /\ rng' = d.rng
                   /\ last' = [last EXCEPT !.rnd = d.value]
                   /\ status' = "trying"
    IN  /\ status = "called"
        /\ IF GroupDrawn.random
           THEN Drew(GenRange(rng, Len(GroupDrawn.rules)))
           ELSE status' = "looping" /\ UNCHANGED <<rng, last>>
        /\ UNCHANGED <<game, current_level, current_level_num, undo_stack,
                       pending_message, budget>>
        /\ CallStepped

\* rule.rs:297-304: a pass of a non-random group starts, or the ceiling is hit
PassStart ==
    /\ status = "looping"
    /\ last' = [last EXCEPT !.iteration = @ + 1, !.board_changed_this_iter = FALSE,
                            !.before = last.triggered, !.i = 1]
    /\ status' = IF last.iteration + 1 > LoopCeiling THEN "panicked" ELSE "passing"
    /\ UNCHANGED <<game, current_level, current_level_num, undo_stack,
                   pending_message, rng, budget>>
    /\ CallStepped

\* the board, the generator and the commands after Rule::evaluate returned r
GroupTakes(r) ==
    /\ current_level' = [current_level EXCEPT !.board = r.board]
    /\ rng' = r.rng

\* rule.rs:305-315: the rule the pass is at is evaluated once; the pass moves
\* on to the next rule when the rule returned false
RuleStep ==
    LET Evaluated(r) ==
          /\ GroupTakes(r)
          /\ last' = [last EXCEPT
                        !.triggered = r.triggered,
                        !.board_changed_this_iter = @ \/ r.changed,
                        !.i = IF r.changed THEN @ ELSE @ + 1,
                        !.evaluations = IF @ < 2 THEN @ + 1 ELSE @,
                        !.changes = IF r.changed /\ @ < 2 THEN @ + 1 ELSE @]
    IN  /\ status = "passing"
        /\ last.i <= Len(GroupDrawn.rules)
        /\ rng < MaxDraws
        /\ IF GroupDrawn.rules[last.i].late = game.late
           THEN Evaluated(RuleEvaluate(GroupDrawn.rules[last.i], current_level.board,
                                       rng, last.triggered, FALSE))
           ELSE /\ last' = [last EXCEPT !.i = @ + 1]
                /\ UNCHANGED <<current_level, rng>>
        /\ UNCHANGED <<game, current_level_num, undo_stack, pending_message,
                       status, budget>>
        /\ CallStepped

\* a pass after which the call returns whatever the pass changed
PassEndAtOnce ==
    /\ status = "passing"
    /\ last.i > Len(GroupDrawn.rules)
    /\ last' = [last EXCEPT
                  !.board_changed = @ \/ last.board_changed_this_iter,
                  !.ret = last.board_changed \/ last.board_changed_this_iter]
    /\ status' = "returned"
    /\ UNCHANGED <<game, current_level, current_level_num, undo_stack,
                   pending_message, rng, budget>>
    /\ CallStepped

\* rule.rs:317-320: the pass is over; the call returns when it changed neither
\* the board nor the commands
PassEnd ==
    /\ status = "passing"
    /\ last.i > Len(GroupDrawn.rules)
    /\ last' = [last EXCEPT
                  !.board_changed = @ \/ last.board_changed_this_iter,
                  !.ret = last.board_changed \/ last.board_changed_this_iter]
    /\ status' = IF ~last.board_changed_this_iter /\ last.before = last.triggered
                 THEN "returned" ELSE "looping"
    /\ UNCHANGED <<game, current_level, current_level_num, undo_stack,
                   pending_message, rng, budget>>
    /\ CallStepped

\* rule.rs:276-286: a random group evaluates the rule it is at once, with
\* eval_once, and moves to the next in rotation
RandomStep ==
    LET Evaluated(r) ==
          /\ GroupTakes(r)
          /\ last' = [last EXCEPT
                        !.triggered = r.triggered,
                        !.ret = r.changed \/ last.triggered # r.triggered,
                        !.offset = @ + 1,
                        !.evaluations = IF @ < 2 THEN @ + 1 ELSE @,
                        !.changes = IF r.changed /\ @ < 2 THEN @ + 1 ELSE @]
        At(rule) ==
          IF rule.late = game.late
          THEN Evaluated(RuleEvaluate(rule, current_level.board, rng,
                                      last.triggered, TRUE))
          ELSE /\ last' = [last EXCEPT !.offset = @ + 1]
               /\ UNCHANGED <<current_level, rng>>
    IN  /\ status = "trying"
        /\ ~last.ret
        /\ last.offset <= Len(GroupDrawn.rules)
        /\ rng < MaxDraws
        /\ At(GroupDrawn.rules[((last.rnd + last.offset) % Len(GroupDrawn.rules)) + 1])
        /\ UNCHANGED <<game, current_level_num, undo_stack, pending_message,
                       status, budget>>
        /\ CallStepped

\* rule.rs:276-279 and 287: a rule changed something, or every rule was tried
RandomEnd ==
    /\ status = "trying"
    /\ last.ret \/ last.offset > Len(GroupDrawn.rules)
    /\ status' = "returned"
    /\ UNCHANGED <<game, current_level, current_level_num, undo_stack,
                   pending_message, rng, budget, last>>
    /\ CallStepped

\* the generator has given MaxDraws values: the call is followed no further
DrawsUsedUp ==
    /\ status \in {"passing", "trying"}
    /\ rng >= MaxDraws
    /\ status' = "capped"
    /\ UNCHANGED <<game, current_level, current_level_num, undo_stack,
                   pending_message, rng, budget, last>>
    /\ CallStepped

\* the observer marks the state the call is in
Mark ==
    /\ status \in {"looping", "passing", "trying"}
    /\ ~prev.marked
    /\ last.iteration <= MaxMarked
    /\ prev' = [marked |-> TRUE, left |-> FALSE, state |-> CallState]
    /\ UNCHANGED <<game, current_level, current_level_num, undo_stack,
                   pending_message, rng, status, budget, last>>

NextGroup ==
    GroupCall \/ PassStart \/ RuleStep \/ PassEnd \/ RandomStep \/ RandomEnd
    \/ DrawsUsedUp \/ Mark

SpecGroup == InitGroup /\ [][NextGroup]_vars

(***************************************************************************)
(* SpecBoard: a board built by from_tiles or from_checkpoint, changed by   *)
(* add_sprite, add_sprite_index, remove_collision_layer and                *)
(* set_wants_to_move, and restored from the snapshot on the undo stack.    *)
(***************************************************************************)
\* the sprites of the cells of the boards built, in row-major order
BoardCells ==
    {<< <<>>, <<>>, <<>>, <<>> >>,
     << <<Player, Star>>, <<>>, <<>>, <<Crate>> >>,
     << <<Crate>>, <<Player>>, <<Star>>, <<>> >>}

\* the rows of tiles of a level with these cells
CellsToTiles(cells) ==
    << <<Tile("And", cells[1]), Tile("And", cells[2])>>,
       <<Tile("And", cells[3]), Tile("And", cells[4])>> >>

BoardDirs == {"Stationary", "Right", "Up"}

\* an engine on the board, the board itself the one snapshot of its undo stack
BoardBuilt(board) ==
    /\ current_level = [kind |-> "Board", board |-> board, message |-> None]
    /\ undo_stack = <<board>>

InitBoard ==
    /\ game = "walk"
    /\ \E cells \in BoardCells :
          \/ BoardBuilt(FromTiles(CellsToTiles(cells), EmptyTile))
          \/ BoardBuilt(FromCheckpoint(2, 2, cells))
    /\ current_level_num = 0
    /\ pending_message = None
    /\ rng = NewRng
    /\ status = "board"
    /\ budget = MaxOps
    /\ last = NoCall
    /\ prev = Short(NoCall)

\* the engine after a board operation returned r = [board, changed]
BoardOp(kind, r) ==
    /\ status = "board"
    /\ budget > 0
    /\ current_level' = [current_level EXCEPT !.board = r.board]
    /\ last' = [Call(kind, None, FALSE) EXCEPT !.returned = r.changed]
    /\ budget' = budget - 1
    /\ UNCHANGED <<game, current_level_num, undo_stack, pending_message, rng, status, prev>>

\* Board::add_sprite
AddSprite ==
    \E i \in 1..4, k \in DOMAIN PostSprites, dir \in BoardDirs :
       BoardOp("add_sprite",
               BoardAddSprite(current_level.board, IndexToPos(current_level.board, i - 1),
                              PostSprites[k], dir))

\* Board::add_sprite_index
AddSpriteIndex ==
    \E i \in 1..4, k \in DOMAIN PostSprites, dir \in BoardDirs :
       BoardOp("add_sprite_index",
               BoardAddSpriteIndex(current_level.board,
                                   IndexToPos(current_level.board, i - 1),
                                   PostSprites[k].collision_layer, PostSprites[k].index, dir))

\* Board::remove_collision_layer
RemoveCollisionLayer ==
    \E i \in 1..4, c \in {Player.collision_layer, Star.collision_layer} :
       BoardOp("remove_collision_layer",
               BoardRemoveCollisionLayer(current_level.board,
                                         IndexToPos(current_level.board, i - 1), c))

\* Board::set_wants_to_move, of a layer that holds a sprite
SetWantsToMove ==
    \E i \in 1..4, dir \in BoardDirs :
       \E c \in DOMAIN current_level.board.grid[i].collision_layers :
          BoardOp("set_wants_to_move",
                  BoardSetWantsToMove(current_level.board,
                                      IndexToPos(current_level.board, i - 1), c, dir))

\* engine.rs:110-113: the board is replaced by the snapshot popped
RestoreSnapshot ==
    /\ undo_stack # <<>>
    /\ status = "board"
    /\ budget > 0
    /\ current_level' = [current_level EXCEPT !.board = undo_stack[Len(undo_stack)]]
    /\ undo_stack' = SubSeq(undo_stack, 1, Len(undo_stack) - 1)
    /\ last' = Call("restore", None, FALSE)
    /\ budget' = budget - 1
    /\ UNCHANGED <<game, current_level_num, pending_message, rng, status, prev>>

NextBoard ==
    \/ AddSprite
    \/ AddSpriteIndex
    \/ RemoveCollisionLayer
    \/ SetWantsToMove
    \/ RestoreSnapshot

SpecBoard == InitBoard /\ [][NextBoard]_vars

(***************************************************************************)
(* SpecFilter: a board built by from_tiles that lost the sprite of one     *)
(* layer of one cell, the board before that the one snapshot of the undo   *)
(* stack, and changed from there by the operations of SpecBoard.           *)
(***************************************************************************)
\* the board after remove_collision_layer of layer c at cell i
BoardWithout(board, i, c) ==
    BoardRemoveCollisionLayer(board, IndexToPos(board, i - 1), c).board

InitFilter ==
    /\ game = "walk"
    /\ \E cells \in BoardCells, i \in 1..4 :
          \E c \in {Player.collision_layer, Star.collision_layer} :
             /\ current_level =
                   [kind |-> "Board",
                    board |-> BoardWithout(FromTiles(CellsToTiles(cells), EmptyTile), i, c),
                    message |-> None]
             /\ undo_stack = <<FromTiles(CellsToTiles(cells), EmptyTile)>>
    /\ current_level_num = 0
    /\ pending_message = None
    /\ rng = NewRng
    /\ status = "board"
    /\ budget = MaxEdits
    /\ last = NoCall
    /\ prev = Short(NoCall)

SpecFilter == InitFilter /\ [][NextBoard]_vars

(***************************************************************************)
(* SpecBits: two BitSets built from BitSet::new by insert, remove and      *)
(* insert_all, and read by into_vec.  Here the variable game holds the two *)
(* sets, a and b, and last.result what the last operation was given and    *)
(* returned.                                                               *)
(***************************************************************************)
\* the ids inserted and removed: two of the first bucket, its last bit, the
\* first bit of the second bucket and the last id of all
BitIds == {0, 1, 127, 128, 511}

InitBits ==
    /\ game = [a |-> BitSetNew, b |-> BitSetNew]
    /\ current_level = [kind |-> "Message", board |-> EmptyBoard, message |-> None]
    /\ current_level_num = 0
    /\ undo_stack = <<>>
    /\ pending_message = None
    /\ rng = NewRng
    /\ status = "bits"
    /\ budget = MaxBitOps
    /\ last = NoCall
    /\ prev = Short(NoCall)

\* an operation of the kind was applied to set which, given the set of, and
\* left the set s; vec is what into_vec returned
BitsOp(kind, which, of, s, vec) ==
    /\ status = "bits"
    /\ budget > 0
    /\ game' = [game EXCEPT ![which] = s]
    /\ last' = [NoCall EXCEPT !.kind = kind, !.result = [of |-> of, vec |-> vec]]
    /\ budget' = budget - 1
    /\ UNCHANGED <<current_level, current_level_num, undo_stack, pending_message, rng,
                   status, prev>>

\* BitSet::insert
BitsInsert ==
    \E which \in {"a", "b"}, index \in BitIds :
       BitsOp("insert", which, game[which], BitSetInsert(game[which], index), <<>>)

\* BitSet::remove
BitsRemove ==
    \E which \in {"a", "b"}, index \in BitIds :
       BitsOp("remove", which, game[which], BitSetRemove(game[which], index), <<>>)

\* BitSet::insert_all: b into a
BitsInsertAll ==
    \E which \in {"a", "b"} :
       BitsOp("insert_all", which, game[which],
              BitSetInsertAll(game[which], game[IF which = "a" THEN "b" ELSE "a"]), <<>>)

\* BitSet::into_vec
BitsIntoVec ==
    \E which \in {"a", "b"} :
       BitsOp("into_vec", which, game[which], game[which], BitSetIntoVec(game[which]))

NextBits ==
    \/ BitsInsert
    \/ BitsRemove
    \/ BitsInsertAll
    \/ BitsIntoVec

SpecBits == InitBits /\ [][NextBits]_vars

(***************************************************************************)
(* SpecMatch: Cell::matches and TileWithModifier::matches on their own,    *)
(* applied to the cell of a board of one cell on which up to MaxMovers of  *)
(* the sprites of SpecPost stand, each with any direction.  Here last      *)
(* holds the TileWithModifier matched and what the two functions returned. *)
(***************************************************************************)
\* the tiles matched against the cell
MatchTiles ==
    {Tile(kind, sprites) :
       kind \in {"And", "Or"},
       sprites \in {<<>>, <<Player>>, <<Star>>, <<Player, Star>>, <<Player, Crate>>,
                    <<Crate, Star>>}}

InitMatch ==
    /\ game = "walk"
    /\ \E draw \in PostDraws :
          /\ \A i \in DOMAIN draw : draw[i] # <<>> => draw[i][1] = 1
          /\ current_level = [kind |-> "Board",
                              board |-> PostPlaced(BoardNew(1, 1), draw, 1),
                              message |-> None]
    /\ current_level_num = 0
    /\ undo_stack = <<>>
    /\ pending_message = None
    /\ rng = NewRng
    /\ status = "drawn"
    /\ budget = 1
    /\ last = NoCall
    /\ prev = Short(NoCall)

\* Cell::matches and TileWithModifier::matches are called on the cell
MatchCell ==
    \E tile \in MatchTiles, dir \in {None} \cup PostDirections, negated \in BOOLEAN :
       /\ status = "drawn"
       /\ status' = "matched"
       /\ last' = [NoCall EXCEPT
                     !.kind = "matches",
                     !.input = TileWithModifier(tile, dir, negated),
                     !.result = [cell |-> CellMatches(current_level.board.grid[1], tile, dir),
                                 twm |-> TwmMatches(TileWithModifier(tile, dir, negated),
                                                    current_level.board, Pos(0, 0))]]
       /\ prev' = Short(last)
       /\ budget' = 0
       /\ UNCHANGED <<game, current_level, current_level_num, undo_stack,
                      pending_message, rng>>

SpecMatch == InitMatch /\ [][MatchCell]_vars

(***************************************************************************)
(* The properties.                                                         *)
(***************************************************************************)
\* the last call was a tick that evaluated the rules on a map level
TickedMap == last.kind = "tick" /\ last.evaluated

\* the board before the last call
PreBoard == last.pre_level.board

AllStationary(board) ==
    \A i \in DOMAIN board.grid :
       \A c \in DOMAIN board.grid[i].collision_layers :
          board.grid[i].collision_layers[c].wants_to_move = "Stationary"

\* the last call was a tick that left the engine as it was
TickWasNoOp ==
    /\ BoardEq(current_level.board, PreBoard)
    /\ undo_stack = last.pre_stack
    /\ pending_message = last.pre_message
    /\ ~last.result.changed

\* C1: when a tick with a direction or Action changed the board and was not
\* cancelled, the board after a tick(Undo) that follows at once is, cell for
\* cell and direction for direction, the board before the first tick.
C1_UndoRestoresPreTickBoard ==
    (/\ TickedMap
     /\ last.input = "Undo"
     /\ prev.kind = "tick"
     /\ prev.evaluated
     /\ Pressed(prev.input)
     /\ prev.changed
     /\ ~prev.cancel)
    => BoardEq(current_level.board, prev.pre_level.board)

\* C2: a tick on a map level whose commands include cancel leaves the board,
\* the undo stack and pending_message as they were and reports no change,
\* whatever the input.
C2_CancelledTickIsNoOp ==
    (TickedMap /\ last.triggered.cancel) => TickWasNoOp

\* C3: after tick(Restart) on a map level with a non-empty undo stack the
\* board is the board the level had on entry.
C3_RestartRestoresEntryBoard ==
    (TickedMap /\ last.input = "Restart" /\ last.pre_stack # <<>>)
    => BoardEq(current_level.board,
               ToBoard(GameOf, GameOf.levels[current_level_num + 1]))

\* the stacks a tick can leave without pushing: the stack as it was, popped
\* by Undo, or cleared by a checkpoint
UnpushedStacks ==
    {last.pre_stack, <<>>}
    \cup {SubSeq(s, 1, Len(s) - 1) :
             s \in {t \in {last.pre_stack} : t # <<>> /\ last.input = "Undo"}}

\* the stacks a tick can leave by pushing the pre-tick board once
PushedStacks ==
    {Append(base, PreBoard) :
        base \in {last.pre_stack, <<>>}
                 \cup {Drain(s, 1, DrainEnd) :
                          s \in {t \in {last.pre_stack} : Len(t) > UndoLimit}}}

\* C4: a tick pushes onto the undo stack only when its input was a direction
\* or Action, it was not cancelled and the board it leaves differs from the
\* pre-tick board; it then pushes one entry, the pre-tick board.  Ticks
\* without input, with Undo or with Restart do not push.
C4_PushOnlyOnPressedChange ==
    TickedMap =>
       /\ last.pushed = 1 =>
             /\ Pressed(last.input)
             /\ ~last.triggered.cancel
             /\ ~BoardEq(current_level.board, PreBoard)
             /\ undo_stack \in PushedStacks
       /\ last.pushed = 0 => undo_stack \in UnpushedStacks
       /\ (\/ ~Pressed(last.input)
           \/ last.triggered.cancel
           \/ BoardEq(current_level.board, PreBoard)) => undo_stack \in UnpushedStacks

\* a tick pushed the pre-tick board onto a stack it did not trim
C4_Pushed ==
    /\ TickedMap
    /\ last.pushed = 1
    /\ undo_stack = Append(last.pre_stack, PreBoard)

\* C5 as stated: the undo stack never holds more than 100 boards.
C5_AtMostLimit == Len(undo_stack) <= UndoLimit

\* C5, amended: the undo stack never holds more than 101 boards (the length
\* is compared with 100 before the push, and only a stack of more than 100 is
\* trimmed).
C5_AtMostLimitPlusOne == Len(undo_stack) <= UndoLimit + 1

\* a tick pushed onto a stack of 100 boards
C5_Holds101 ==
    /\ TickedMap
    /\ last.pushed = 1
    /\ Len(last.pre_stack) = UndoLimit
    /\ Len(undo_stack) = UndoLimit + 1

\* the last tick pushed and the stack did not grow: it was trimmed
Trimmed ==
    /\ TickedMap
    /\ last.pushed = 1
    /\ ~last.triggered.checkpoint
    /\ Len(undo_stack) <= Len(last.pre_stack)

\* C6: a trim keeps the entry at index 0 and the 50 entries pushed last, in
\* their order; and a tick that neither reaches a checkpoint nor empties the
\* stack by Undo leaves the entry at index 0 where it was.
C6_TrimKeepsFirstAndRecent ==
    (TickedMap /\ last.pre_stack # <<>>) =>
       /\ Trimmed =>
             \E k \in 2..(Len(last.pre_stack) - DrainEnd + 1) :
                undo_stack = <<last.pre_stack[1]>>
                             \o SubSeq(last.pre_stack, k, Len(last.pre_stack))
                             \o <<PreBoard>>
       /\ ~(last.triggered.checkpoint /\ ~last.triggered.cancel) =>
             \/ undo_stack # <<>> /\ undo_stack[1] = last.pre_stack[1]
             \/ last.input = "Undo" /\ Len(last.pre_stack) = 1 /\ undo_stack = <<>>

\* a tick trimmed a stack of more than 100 boards
C6_Trimmed == Trimmed /\ Len(last.pre_stack) > UndoLimit

\* C7: on a map level with an empty undo stack and no pending message,
\* tick(Undo) and tick(Restart) leave the board, the undo stack and
\* pending_message as they were and report no change.
C7_UnwindOfEmptyStackIsNoOp ==
    (/\ TickedMap
     /\ last.input \in {"Undo", "Restart"}
     /\ last.pre_stack = <<>>
     /\ last.pre_message = None)
    => TickWasNoOp

\* C8: after every tick every sprite of the current board is Stationary.
C8_StationaryAfterTick ==
    (last.kind = "tick" /\ current_level.kind = "Board")
    => AllStationary(current_level.board)

\* C9: when evaluate_post returns, every occupied slot of the board is
\* Stationary.
C9_StationaryAfterPost ==
    status = "resolved" => AllStationary(current_level.board)

\* evaluate_post returned from a board on which its loop left a sprite with a
\* direction: the sprite was blocked
C9_ResolvedBlocked ==
    /\ status = "resolved"
    /\ ~AllStationary(PostLoop(PreBoard, 0).board)

\* C10: a tick that is not cancelled runs the non-late rules, resolves
\* motion, runs the late rules and checks the win conditions, in this order:
\* a move a rule asks for is made in the same tick; the late rules have
\* nothing left to do on the board the tick leaves, which they would have if
\* motion were resolved after them; the star the late rule of the game
\* "late" puts under the player lies where the player moved to; and the
\* level is completed exactly when the win conditions hold on the board the
\* tick leaves.
C10_PhaseOrder ==
    (TickedMap /\ ~last.triggered.cancel /\ status # "panicked") =>
       /\ (game = "auto" /\ last.input = None) =>
             \A x \in 0..1 :
                BoardMatches(PreBoard, Pos(x, 0), PlayerTile, None)
                => BoardMatches(current_level.board, Pos(x + 1, 0), PlayerTile, None)
       /\ BoardEq(EvaluateRules(GameOf, current_level.board, rng, TRUE).board,
                  current_level.board)
       /\ game = "late" =>
             /\ BoardMatches(current_level.board, Pos(1, 0), StarTile, None)
             /\ ~BoardMatches(current_level.board, Pos(0, 0), StarTile, None)
             /\ ~BoardMatches(current_level.board, Pos(0, 0), PlayerTile, None)
             /\ ~BoardMatches(current_level.board, Pos(1, 0), PlayerTile, None)
       /\ (last.result.completed_level # <<>>)
          = CheckWinConditions(GameOf, current_level.board)

\* a tick of the game "late" moved the player, replaced it by the star and
\* completed the level
C10_LateAfterMove ==
    /\ TickedMap
    /\ game = "late"
    /\ ~last.triggered.cancel
    /\ BoardMatches(PreBoard, Pos(0, 0), PlayerTile, None)
    /\ last.result.completed_level # <<>>

\* the position one step from pos in direction w, on the board or not
Stepped(pos, w) ==
    CASE w = "Up"    -> [x |-> pos.x, y |-> pos.y - 1]
      [] w = "Down"  -> [x |-> pos.x, y |-> pos.y + 1]
      [] w = "Left"  -> [x |-> pos.x - 1, y |-> pos.y]
      [] w = "Right" -> [x |-> pos.x + 1, y |-> pos.y]
      [] OTHER       -> pos

OnBoard(board, pos) ==
    pos.x \in 0..(board.width - 1) /\ pos.y \in 0..(board.height - 1)

\* the sprite of layer c of cell i wants to move off the board
HeadsOffBoard(board, i, c) ==
    ~OnBoard(board, Stepped(IndexToPos(board, i - 1),
                            board.grid[i].collision_layers[c].wants_to_move))

\* the cells of board that hold sprite_index in layer c
CellsHolding(board, c, sprite_index) ==
    {j \in DOMAIN board.grid :
        /\ c \in DOMAIN board.grid[j].collision_layers
        /\ board.grid[j].collision_layers[c].sprite_index = sprite_index}

\* the cells the sprite of layer c of cell i may be in after motion: its own,
\* or the one a step away in its direction when that is on the board
CellsInReach(board, i, c) ==
    {i} \cup {j \in DOMAIN board.grid :
                IndexToPos(board, j - 1)
                = Stepped(IndexToPos(board, i - 1),
                          board.grid[i].collision_layers[c].wants_to_move)}

\* C11: motion resolution leaves a sprite that heads off the board in its
\* cell, Stationary; and it takes no sprite anywhere but one step in its
\* direction: never to the opposite edge, never to another row or column.
C11_EdgeStopsNoWrap ==
    status = "resolved" =>
       \A i \in DOMAIN PreBoard.grid :
          \A c \in DOMAIN PreBoard.grid[i].collision_layers :
             /\ CellsHolding(current_level.board, c,
                             PreBoard.grid[i].collision_layers[c].sprite_index)
                \subseteq CellsInReach(PreBoard, i, c)
             /\ HeadsOffBoard(PreBoard, i, c) =>
                   /\ c \in DOMAIN current_level.board.grid[i].collision_layers
                   /\ current_level.board.grid[i].collision_layers[c]
                      = [PreBoard.grid[i].collision_layers[c] EXCEPT
                           !.wants_to_move = "Stationary"]

\* motion was resolved on a board with a sprite heading off the board
C11_HeadedOffBoard ==
    /\ status = "resolved"
    /\ \E i \in DOMAIN PreBoard.grid :
          \E c \in DOMAIN PreBoard.grid[i].collision_layers : HeadsOffBoard(PreBoard, i, c)

\* position p comes before position q in row-major order
RowMajorBefore(p, q) == p.y < q.y \/ (p.y = q.y /\ p.x < q.x)

\* the sprites of layer c of the cells i and j of board both want to move
\* into cell t, whose slot for layer c is empty; i is the earlier cell
RaceInto(board, i, j, c, t) ==
    /\ i # j
    /\ RowMajorBefore(IndexToPos(board, i - 1), IndexToPos(board, j - 1))
    /\ c \in DOMAIN board.grid[i].collision_layers
    /\ c \in DOMAIN board.grid[j].collision_layers
    /\ c \notin DOMAIN board.grid[t].collision_layers
    /\ board.grid[i].collision_layers[c].wants_to_move \in CardinalDirection
    /\ board.grid[j].collision_layers[c].wants_to_move \in CardinalDirection
    /\ IndexToPos(board, t - 1)
       = Stepped(IndexToPos(board, i - 1), board.grid[i].collision_layers[c].wants_to_move)
    /\ IndexToPos(board, t - 1)
       = Stepped(IndexToPos(board, j - 1), board.grid[j].collision_layers[c].wants_to_move)

\* the races of layer c on the board: <<i, j, t>>
Races(board, c) ==
    {r \in (DOMAIN board.grid) \X (DOMAIN board.grid) \X (DOMAIN board.grid) :
        RaceInto(board, r[1], r[2], c, r[3])}

\* C12: of two sprites of one collision layer that want to move into the same
\* empty slot, the one at the earlier row-major position moves (and only it);
\* the other stays in its own cell and ends Stationary.
C12_EarlierSpriteWinsRace ==
    status = "resolved" =>
       \A c \in {Player.collision_layer, Star.collision_layer} :
          \A r \in Races(PreBoard, c) :
             /\ c \in DOMAIN current_level.board.grid[r[3]].collision_layers
             /\ current_level.board.grid[r[3]].collision_layers[c]
                = [PreBoard.grid[r[1]].collision_layers[c] EXCEPT
                     !.wants_to_move = "Stationary"]
             /\ c \notin DOMAIN current_level.board.grid[r[1]].collision_layers
             /\ c \in DOMAIN current_level.board.grid[r[2]].collision_layers
             /\ current_level.board.grid[r[2]].collision_layers[c]
                = [PreBoard.grid[r[2]].collision_layers[c] EXCEPT
                     !.wants_to_move = "Stationary"]

\* motion was resolved on a board where two sprites raced for one empty slot
C12_Raced ==
    /\ status = "resolved"
    /\ \E c \in {Player.collision_layer, Star.collision_layer} : Races(PreBoard, c) # {}

\* some cell of the board matches the tile, and the other tile too
SomeCellMatches(board, tile, on_tile) ==
    \E i \in DOMAIN board.grid :
       /\ BoardMatches(board, IndexToPos(board, i - 1), tile, None)
       /\ BoardMatches(board, IndexToPos(board, i - 1), on_tile, None)

\* every cell of the board that matches the tile matches the other tile too
EveryCellMatches(board, tile, on_tile) ==
    \A i \in DOMAIN board.grid :
       BoardMatches(board, IndexToPos(board, i - 1), tile, None)
       => BoardMatches(board, IndexToPos(board, i - 1), on_tile, None)

\* the win condition w holds on the board, read cell by cell
ConditionHolds(w, board) ==
    CASE w.kind = "Simple" /\ w.qualifier = "No" -> ~SomeCellMatches(board, w.tile, w.tile)
      [] w.kind = "Simple" /\ w.qualifier \in {"Any", "Some"} ->
            SomeCellMatches(board, w.tile, w.tile)
      [] w.kind = "On" /\ w.qualifier = "No" -> ~SomeCellMatches(board, w.tile, w.on_tile)
      [] w.kind = "On" /\ w.qualifier \in {"Any", "Some"} ->
            SomeCellMatches(board, w.tile, w.on_tile)
      [] w.kind = "On" /\ w.qualifier = "All" -> EveryCellMatches(board, w.tile, w.on_tile)

\* the game declares a win condition and the board satisfies all it declares
ConditionsWin(wins, board) ==
    /\ wins # <<>>
    /\ \A i \in DOMAIN wins : ConditionHolds(wins[i], board)

HasMatch(c, board) ==
    \E i \in DOMAIN board.grid : FindMatch(c, board, IndexToPos(board, i - 1)) # <<>>

EveryBracketHasMatch(rule, board) ==
    \A i \in DOMAIN rule.conditions : HasMatch(rule.conditions[i], board)

\* C14: Rule::evaluate of a rule whose causes_board_changes is false leaves
\* the board as it was and returns false; it merges the rule's commands into
\* the triggered ones exactly when every condition bracket has a match.
C14_CommandRuleLeavesBoard ==
    (status = "ruled" /\ ~RuleDrawn.causes_board_changes) =>
       /\ current_level.board = PreBoard
       /\ ~last.returned
       /\ last.triggered = IF EveryBracketHasMatch(RuleDrawn, PreBoard)
                           THEN Merge(game.triggered, RuleDrawn.commands)
                           ELSE game.triggered

\* a rule of two brackets that changes no board set its command
C14_CommandsMerged ==
    /\ status = "ruled"
    /\ ~RuleDrawn.causes_board_changes
    /\ Len(RuleDrawn.conditions) = 2
    /\ last.triggered # game.triggered

\* C15: within one Rule::evaluate a bracket's action is applied at a match only
\* if the bracket matches the board as it is when the action is applied: a
\* match that an earlier application of the call invalidated is skipped.
C15_AppliedOnlyWhereItMatches ==
    status = "ruled" =>
       \A k \in DOMAIN last.result.applied :
          BracketMatches(RuleDrawn.conditions[last.result.applied[k].condition],
                         last.result.applied[k].board,
                         last.result.applied[k].match)

\* the matches of condition i found on the board that were never applied
Skipped(rule, board, applied, i) ==
    {k \in DOMAIN FindMatches(rule, board)[i] :
        \A a \in DOMAIN applied :
           ~(applied[a].condition = i /\ applied[a].match = FindMatches(rule, board)[i][k])}

\* a call applied some match and skipped another it had found at its start
C15_SkippedStaleMatch ==
    /\ status = "ruled"
    /\ last.result.applied # <<>>
    /\ \E i \in DOMAIN FindMatches(RuleDrawn, PreBoard) :
          Skipped(RuleDrawn, PreBoard, last.result.applied, i) # {}

\* the cells of row y and of column x of the board (0-based)
RowCells(board, y) == {i \in DOMAIN board.grid : IndexToPos(board, i - 1).y = y}

ColCells(board, x) == {i \in DOMAIN board.grid : IndexToPos(board, i - 1).x = x}

\* the cache holds every sprite id and every <<collision_layer, wants_to_move>>
\* present in the cells
CacheCovers(cache, board, cells) ==
    \A i \in cells :
       \A c \in DOMAIN board.grid[i].collision_layers :
          /\ board.grid[i].collision_layers[c].sprite_index \in cache.sprites
          /\ <<c, board.grid[i].collision_layers[c].wants_to_move>> \in cache.dirs

\* C16: row_cache[y] and col_cache[x] contain every sprite id and every
\* (collision_layer, wants_to_move) pair present in row y and in column x.
C16_CachesCoverStripes ==
    status = "board" =>
       /\ \A y \in 0..(current_level.board.height - 1) :
             CacheCovers(current_level.board.row_cache[y + 1], current_level.board,
                         RowCells(current_level.board, y))
       /\ \A x \in 0..(current_level.board.width - 1) :
             CacheCovers(current_level.board.col_cache[x + 1], current_level.board,
                         ColCells(current_level.board, x))

\* a sprite was added with a direction to a board restored from its snapshot
C16_AddedAfterRestore ==
    /\ status = "board"
    /\ undo_stack = <<>>
    /\ last.kind \in {"add_sprite", "add_sprite_index"}
    /\ last.returned
    /\ \E i \in DOMAIN current_level.board.grid :
          \E c \in DOMAIN current_level.board.grid[i].collision_layers :
             current_level.board.grid[i].collision_layers[c].wants_to_move # "Stationary"

\* the sprite ids stored in the collision-layer map of a cell
StoredIds(cell) ==
    {cell.collision_layers[c].sprite_index : c \in DOMAIN cell.collision_layers}

\* the collision layer of a sprite id
LayerOf(sprite_index) ==
    {PostSprites[k].collision_layer :
        k \in {j \in DOMAIN PostSprites : PostSprites[j].index = sprite_index}}

\* C17: in every cell sprite_bits is exactly the set of the sprite ids stored
\* in the collision-layer map, and a layer holds one sprite, of that layer.
C17_BitsAreStoredIds ==
    status = "board" =>
       \A i \in DOMAIN current_level.board.grid :
          /\ current_level.board.grid[i].sprite_bits = StoredIds(current_level.board.grid[i])
          /\ \A c \in DOMAIN current_level.board.grid[i].collision_layers :
                LayerOf(current_level.board.grid[i].collision_layers[c].sprite_index) = {c}
          /\ Cardinality(StoredIds(current_level.board.grid[i]))
             = Cardinality(DOMAIN current_level.board.grid[i].collision_layers)

\* a sprite took the place of another one of its collision layer in a cell
C17_Replaced ==
    /\ status = "board"
    /\ last.kind = "add_sprite_index"
    /\ \E i \in DOMAIN PreBoard.grid :
          \E c \in DOMAIN PreBoard.grid[i].collision_layers :
             /\ c \in DOMAIN current_level.board.grid[i].collision_layers
             /\ current_level.board.grid[i].collision_layers[c].sprite_index
                # PreBoard.grid[i].collision_layers[c].sprite_index

\* C18: while a message is pending, a tick with any input but Action changes
\* nothing and reports changed = false; a tick with Action clears the message
\* and reports changed = true; neither evaluates a rule nor touches the board
\* or the undo stack.
C18_PendingMessageTick ==
    (last.kind = "tick" /\ last.pre_message # None) =>
       /\ ~last.evaluated
       /\ last.triggered = NoCommands
       /\ current_level = last.pre_level
       /\ undo_stack = last.pre_stack
       /\ rng = last.pre_rng
       /\ pending_message = IF last.input = "Action" THEN None ELSE last.pre_message
       /\ last.result = [TickResultEmpty EXCEPT !.changed = (last.input = "Action")]

\* a tick with Undo met a pending message, on a non-empty undo stack
C18_UndoWhilePending ==
    /\ last.kind = "tick"
    /\ last.pre_message # None
    /\ last.input = "Undo"
    /\ last.pre_stack # <<>>

\* C19: on a tick whose triggered commands include cancel no other command
\* takes effect: the TickResult has changed = false, completed_level = None,
\* checkpoint = None, sfx = false and accepting_input = true.
C19_CancelSuppressesCommands ==
    (TickedMap /\ last.triggered.cancel) => last.result = TickResultEmpty

\* C20: after a tick that was not cancelled and whose commands include
\* checkpoint, the undo stack holds no snapshot stored before the tick: it is
\* empty, or holds the pre-tick board alone when a direction or Action was
\* pressed and the board changed; TickResult.checkpoint is the current board.
C20_CheckpointClearsStack ==
    (TickedMap /\ last.triggered.checkpoint /\ ~last.triggered.cancel) =>
       /\ undo_stack = IF Pressed(last.input) /\ ~BoardEq(current_level.board, PreBoard)
                       THEN <<PreBoard>>
                       ELSE <<>>
       /\ last.result.checkpoint = <<current_level.board>>

\* a checkpoint was reached by a move on a stack that held two snapshots
C20_CheckpointOnStack ==
    /\ TickedMap
    /\ last.triggered.checkpoint
    /\ ~last.triggered.cancel
    /\ Len(last.pre_stack) >= 2
    /\ undo_stack = <<PreBoard>>

\* the level the game has at the engine's current index, freshly built
FreshLevel == LevelToCurrent(GameOf, GameOf.levels[current_level_num + 1])

\* next_level as the claim describes it, from the engine before to the one after
NextLevelAdvances ==
    /\ current_level_num' = current_level_num + 1
    /\ last'.returned <=> current_level_num' < Len(GameOf.levels)
    /\ last'.returned =>
          /\ current_level' = LevelToCurrent(GameOf, GameOf.levels[current_level_num' + 1])
          /\ undo_stack' = <<>>
          /\ pending_message' = None

\* C23: next_level advances current_level_num by one and returns false exactly
\* when the new index is past the last level; when it returns true the current
\* level is the freshly built level at the new index, the undo stack is empty
\* and no message is pending, and an Undo or Restart that follows finds no
\* board of the level before: it leaves the board that a tick without input
\* leaves of the fresh level.
C23_NextLevelEntersFreshLevel ==
    /\ [][last'.kind = "next_level" => NextLevelAdvances]_vars
    /\ []((last.kind = "tick" /\ prev.kind = "next_level"
           /\ last.input \in {"Undo", "Restart"})
          => current_level.board =
                TickBoard(GameOf, FreshLevel.board, <<>>, last.pre_rng, None,
                          current_level_num, None).current_board)

\* next_level entered a map level leaving boards of the level before behind
C23_EnteredNextMap ==
    /\ last.kind = "next_level"
    /\ last.returned
    /\ last.pre_stack # <<>>
    /\ current_level.kind = "Board"

\* the commands a rule can trigger besides cancel
Reported == {"again", "checkpoint", "win", "sfx", "message", "restart"}

\* the commands t with command c taken out
Without(t, c) == [t EXCEPT ![c] = NoCommands[c]]

\* what the last tick would have left had its rules triggered the commands t:
\* the board, the undo stack, the pending message and the TickResult
OutcomeWith(t) ==
    LET Left(r) == <<r.current_board, r.undo_stack, r.pending_message, r.result>>
        Finished(sel) ==
            Left(TickFinish(PreBoard, last.pre_message, current_level_num, sel,
                            EvalState(current_level.board, rng, t, FALSE, FALSE)))
    IN  Finished(TickSelect(GameOf, PreBoard, last.pre_stack, last.pre_rng, last.input))

\* command c was triggered on the last tick, and the tick left what it would
\* have left without it
Dropped(c) ==
    /\ last.triggered[c] # NoCommands[c]
    /\ OutcomeWith(last.triggered) = OutcomeWith(Without(last.triggered, c))

\* C24: every command other than cancel that the rules trigger during a tick
\* that is not cancelled shows in what the tick leaves (TickResult, board, undo
\* stack or pending message): none is dropped.
C24_NoCommandDropped ==
    (TickedMap /\ ~last.triggered.cancel /\ status # "panicked")
    => \A c \in Reported : ~Dropped(c)

\* the rules triggered restart on a tick that was not cancelled
C24_RestartTriggered ==
    TickedMap /\ ~last.triggered.cancel /\ last.triggered.restart

C22_ReplayCompletesAlike ==
    status \in {"replayed", "stuck"}
    => /\ status = "replayed"
       /\ current_level = last.engine.current_level

\* a recorded level was replayed
C22_Replayed ==
    status = "replayed" /\ last.inputs # <<>>

\* C25: every call of RuleGroup::evaluate comes to an end, by returning or
\* by aborting at the ceiling of 1000 iterations; it never loops forever.
\* The call is deterministic, so it loops forever exactly when it comes back
\* to a state it has been in: no state marked is ever met again.
C25_GroupEvaluateEnds ==
    ~(prev.marked /\ prev.left /\ prev.state = CallState)

\* the rule applies a direction drawn from the generator
DrawsDirection(rule) ==
    \E i \in DOMAIN rule.actions :
       \E j \in DOMAIN rule.actions[i].before_neighbors :
          \E k \in DOMAIN rule.actions[i].before_neighbors[j].tiles :
             rule.actions[i].before_neighbors[j].tiles[k].direction = "RandomDir"

\* evaluating the rule once more on the board the call left changes nothing
\* and returns false
AtFixpoint(rule) ==
    LET Still(r) == ~r.changed /\ r.board = current_level.board
    IN  Still(RuleEvaluate(rule, current_level.board, rng, last.triggered, FALSE))

\* every rule of the group that has the late flag of the call is at its fixpoint
GroupAtFixpoint ==
    \A i \in DOMAIN GroupDrawn.rules :
       GroupDrawn.rules[i].late = game.late => AtFixpoint(GroupDrawn.rules[i])

\* C26 as stated: when a non-random RuleGroup::evaluate returns, the board is
\* a fixpoint of the group: any rule of the group with the late flag of the
\* call, evaluated once more, changes nothing and returns false.
C26_ReturnsAtFixpoint ==
    (status = "returned" /\ ~GroupDrawn.random) => GroupAtFixpoint

\* C26: when a non-random RuleGroup::evaluate returns, and no rule of the
\* group applies a direction drawn from the generator, the board is a fixpoint
\* of the group: any rule of the group with the late flag of the call,
\* evaluated once more, changes nothing and returns false.
C26_ReturnsAtFixpointUndrawn ==
    (status = "returned" /\ ~GroupDrawn.random
     /\ \A i \in DOMAIN GroupDrawn.rules : ~DrawsDirection(GroupDrawn.rules[i]))
    => GroupAtFixpoint

\* the player crawled cell by cell from the first cell of the row to the last
\* within the one call
C26_CrawledToTheEdge ==
    /\ status = "returned"
    /\ game.group = "crawl"
    /\ ~game.late
    /\ Player.index \in last.first.grid[1].sprite_bits
    /\ Player.index \in current_level.board.grid[3].sprite_bits
    /\ Player.index \notin current_level.board.grid[1].sprite_bits

\* the boards one match tuple of the rule, found on the board and applied to
\* it alone with a generator the call can have had, leaves
OneTupleApplied(rule, board) ==
    LET Boards(perms) ==
          {ApplyPerm(rule, perms[k], 1, board, g, FALSE, <<>>).board :
              k \in DOMAIN perms, g \in NewRng..rng}
        Found(matches) ==
          IF matches = <<>> THEN {} ELSE Boards(BuildPermutations(matches))
    IN  Found(FindMatches(rule, board))

\* C27: one call of a random RuleGroup::evaluate applies at most one match
\* tuple that changes the board: the board it leaves is the board it was
\* called on, or that board with one tuple of one rule of the group applied,
\* and at most one Rule::evaluate of the call changed the board, the last one.
C27_RandomGroupChangesOnce ==
    (GroupDrawn.random /\ status \in {"trying", "returned"})
    => /\ last.changes <= 1
       /\ (last.changes = 1 => last.ret)
       /\ \/ current_level.board = last.first
          \/ \E i \in DOMAIN GroupDrawn.rules :
                current_level.board \in OneTupleApplied(GroupDrawn.rules[i], last.first)

\* a random group returned after removing one of the two crates of the board
C27_OneOfTwoCrates ==
    /\ status = "returned"
    /\ game.group = "dice"
    /\ Cardinality({i \in 1..3 : Crate.index \in last.first.grid[i].sprite_bits}) = 2
    /\ Cardinality({i \in 1..3 : Crate.index \in current_level.board.grid[i].sprite_bits}) = 1

\* the applications of a call are those of whole tuples: one for every
\* condition bracket of the rule, in turn
WholeTuples(rule, applied) ==
    /\ Len(applied) % Len(rule.conditions) = 0
    /\ \A k \in DOMAIN applied :
          applied[k].condition = ((k - 1) % Len(rule.conditions)) + 1

\* C28: within one Rule::evaluate every match tuple is applied to all of its
\* brackets or to none: no tuple is applied to only some of its brackets.
C28_TuplesAppliedWhole ==
    (status = "ruled" /\ RuleDrawn.conditions # <<>>)
    => WholeTuples(RuleDrawn, last.result.applied)

\* the anchors of the matches are in row-major order: y ascending, then x
RowMajor(matches) ==
    \A k \in 1..(Len(matches) - 1) :
       \/ matches[k].before_positions.y < matches[k + 1].before_positions.y
       \/ /\ matches[k].before_positions.y = matches[k + 1].before_positions.y
          /\ matches[k].before_positions.x <= matches[k + 1].before_positions.x

\* how many tuples the lists before list i make
RECURSIVE TuplesBefore(_, _)
TuplesBefore(matches, i) ==
    IF i = 1 THEN 1 ELSE Len(matches[i - 1]) * TuplesBefore(matches, i - 1)

\* the tuples are in the cartesian order of the lists, the first list's match
\* varying fastest
FirstFastest(matches, perms) ==
    /\ Len(perms) = TuplesBefore(matches, Len(matches) + 1)
    /\ \A k \in DOMAIN perms :
          /\ Len(perms[k]) = Len(matches)
          /\ \A i \in DOMAIN matches :
                perms[k][i] = matches[i][(((k - 1) \div TuplesBefore(matches, i))
                                          % Len(matches[i])) + 1]

\* the lists find_matches returns are in row-major order and the tuples built
\* of them are in cartesian order
OrderedMatches(matches) ==
    /\ \A i \in DOMAIN matches : RowMajor(matches[i])
    /\ matches # <<>> => FirstFastest(matches, BuildPermutations(matches))

\* C29: Rule::find_matches lists the matches of every condition bracket,
\* horizontal or vertical, in row-major order of their anchors (y ascending,
\* then x), and Rule::evaluate tries the tuples in the cartesian order of the
\* lists with the first condition's match varying fastest.
C29_MatchesRowMajor ==
    status = "ruled" => OrderedMatches(FindMatches(RuleDrawn, PreBoard))

\* the brackets searched on the boards of SpecBoard
\* [ Player | Star ], DOWN [ RIGHT Crate ], UP [ UP Movable | ],
\* LEFT [ NO Player STATIONARY Star ], [ Player | ... | Crate ],
\* DOWN [ RIGHT PlayerOrStar ], DOWN [ STATIONARY Crate | Movable ]
FilterBrackets ==
    <<BracketNew("Right", <<N1(PlayerTile, None), N1(StarTile, None)>>),
      BracketNew("Down", <<N1(CrateTile, "Right")>>),
      BracketNew("Up", <<N1(MovableTile, "Up"), NeighborNew(<<>>)>>),
      BracketNew("Left", <<NeighborNew(<<TileWithModifier(PlayerTile, None, TRUE),
                                         TileWithModifier(StarTile, "Stationary", FALSE)>>)>>),
      BracketNewEllipsis("Right", <<N1(PlayerTile, None)>>, <<N1(CrateTile, None)>>),
      BracketNew("Down", <<N1(Tile("Or", <<Player, Star>>), "Right")>>),
      BracketNew("Down", <<N1(CrateTile, "Stationary"), N1(MovableTile, None)>>)>>

\* the rules searched: two of the brackets as the conditions
FilterRules ==
    {Rule(<<FilterBrackets[i], FilterBrackets[j]>>, <<>>, NoCommands, FALSE) :
       i \in {1, 2}, j \in {4, 5}}

\* a chain of neighbors fits from start on and matches, cell by cell
ScanChain(b, board, start, neighbors) ==
    /\ Len(neighbors) <= NeighborsLen(board.width, board.height, start, b.dir)
    /\ \A i \in DOMAIN neighbors :
          NeighborMatches(neighbors[i], board,
                          NeighborPositions(board.width, board.height, start, b.dir)[i])

\* the matches of a bracket anchored at start, found cell by cell
ScanAt(b, board, start) ==
    LET Fits(p) == ScanChain(b, board, p, b.after_neighbors)
        After(ps) == [i \in DOMAIN ps |-> BracketMatch(start, <<ps[i]>>)]
        Past(ps) == IF Len(ps) <= Len(b.before_neighbors) THEN <<>>
                    ELSE After(SelectSeq(SubSeq(ps, Len(b.before_neighbors) + 1, Len(ps)),
                                         Fits))
    IN  IF ~ScanChain(b, board, start, b.before_neighbors) THEN <<>>
        ELSE IF b.after_neighbors = <<>> THEN <<BracketMatch(start, <<>>)>>
        ELSE Past(NeighborPositions(board.width, board.height, start, b.dir))

\* the matches of a bracket at every anchor, stripe after stripe
RECURSIVE ScanFrom(_, _, _, _)
ScanFrom(b, board, k, i) ==
    IF k >= (IF IsHorizontal(b) THEN board.height ELSE board.width) THEN <<>>
    ELSE IF i > Len(StripePositions(b, board, k)) THEN ScanFrom(b, board, k + 1, 1)
    ELSE ScanAt(b, board, StripePositions(b, board, k)[i]) \o ScanFrom(b, board, k, i + 1)

\* the lists of matches of the conditions of a rule, none when one is empty
ScanRule(rule, board) ==
    LET Whole(lists) == IF \E i \in DOMAIN lists : lists[i] = <<>> THEN <<>> ELSE lists
    IN  Whole([i \in DOMAIN rule.conditions |-> ScanFrom(rule.conditions[i], board, 0, 1)])

\* a sprite id or a (layer, direction) pair of the cache that no cell of the
\* cells holds any more
StaleIn(cache, board, cells) ==
    \/ \E s \in cache.sprites : \A i \in cells : s \notin StoredIds(board.grid[i])
    \/ \E d \in cache.dirs :
          \A i \in cells :
             \/ d[1] \notin DOMAIN board.grid[i].collision_layers
             \/ board.grid[i].collision_layers[d[1]].wants_to_move # d[2]

\* C30: on a board built and changed by the board operations, with whatever
\* stale entries its stripe caches hold, Bracket::find_match at every anchor
\* and Rule::find_matches return exactly the matches that a scan testing
\* every anchor cell by cell, without the stripe caches, returns.
C30_FilterHidesNoMatch ==
    status = "board" =>
       /\ \A k \in DOMAIN FilterBrackets :
             \A i \in DOMAIN current_level.board.grid :
                FindMatch(FilterBrackets[k], current_level.board,
                          IndexToPos(current_level.board, i - 1))
                = ScanAt(FilterBrackets[k], current_level.board,
                         IndexToPos(current_level.board, i - 1))
       /\ \A rule \in FilterRules :
             FindMatches(rule, current_level.board) = ScanRule(rule, current_level.board)

\* a sprite was removed, a row cache still holds what no cell of the row
\* holds, one bracket is found in that row and another is filtered out there
C30_MatchBehindStaleCache ==
    /\ status = "board"
    /\ last.kind = "remove_collision_layer"
    /\ last.returned
    /\ \E y \in 0..(current_level.board.height - 1) :
          /\ StaleIn(current_level.board.row_cache[y + 1], current_level.board,
                     RowCells(current_level.board, y))
          /\ \E k \in DOMAIN FilterBrackets :
                /\ IsHorizontal(FilterBrackets[k])
                /\ \E x \in 0..(current_level.board.width - 1) :
                      FindMatch(FilterBrackets[k], current_level.board, Pos(x, y)) # <<>>
          /\ \E k \in DOMAIN FilterBrackets :
                /\ IsHorizontal(FilterBrackets[k])
                /\ ~MatchesCache(FilterBrackets[k], current_level.board.row_cache[y + 1])

\* the boards on which the passes of the loop of evaluate_post begin
RECURSIVE PassBoards(_)
PassBoards(board) ==
    LET Rest(r) == IF r.did_change THEN PassBoards(r.board) ELSE <<>>
    IN  <<board>> \o Rest(PostPass(board))

\* the cells of board whose sprite_bits hold sprite_index
CellsWithBit(board, sprite_index) ==
    {j \in DOMAIN board.grid : sprite_index \in board.grid[j].sprite_bits}

\* the cells of board whose layer map holds sprite_index
CellsStoring(board, sprite_index) ==
    {j \in DOMAIN board.grid : sprite_index \in StoredIds(board.grid[j])}

\* the sprite ids on a board
IdsOn(board) == UNION {StoredIds(board.grid[j]) : j \in DOMAIN board.grid}

\* from board b to board a every sprite id is held by as many cells as before,
\* in the layer maps and in the sprite bits
SpritesKept(b, a) ==
    \A s \in IdsOn(b) \cup IdsOn(a) :
       /\ Cardinality(CellsStoring(a, s)) = Cardinality(CellsStoring(b, s))
       /\ Cardinality(CellsWithBit(a, s)) = Cardinality(CellsWithBit(b, s))

\* from board b to board a, a slot holds another sprite than before only if
\* it was empty on b
EnteredEmptySlots(b, a) ==
    \A j \in DOMAIN a.grid :
       \A c \in DOMAIN a.grid[j].collision_layers :
          \/ c \notin DOMAIN b.grid[j].collision_layers
          \/ b.grid[j].collision_layers[c].sprite_index
             = a.grid[j].collision_layers[c].sprite_index

\* C31: evaluate_post neither loses nor duplicates nor overwrites a sprite:
\* every sprite id is held by as many cells after it as before, and in every
\* pass of its loop a sprite enters only a slot of its layer that was empty.
C31_NoSpriteLostOrOverwritten ==
    status = "resolved" =>
       /\ SpritesKept(PreBoard, current_level.board)
       /\ \A k \in DOMAIN PassBoards(PreBoard) :
             /\ SpritesKept(PassBoards(PreBoard)[k], PostPass(PassBoards(PreBoard)[k]).board)
             /\ EnteredEmptySlots(PassBoards(PreBoard)[k],
                                  PostPass(PassBoards(PreBoard)[k]).board)

\* two sprites of one layer were scheduled in one pass for the same empty
\* slot: one moved, the other found the slot taken when its move was applied
C31_SecondMoverRefused ==
    /\ status = "resolved"
    /\ \E s, t \in {k \in DOMAIN Slots(PreBoard) : PostToMove(PreBoard, Slots(PreBoard)[k])} :
          /\ s < t
          /\ PostMove(PreBoard, Slots(PreBoard)[s])[2] = PostMove(PreBoard, Slots(PreBoard)[t])[2]
          /\ PostMove(PreBoard, Slots(PreBoard)[s])[3] = PostMove(PreBoard, Slots(PreBoard)[t])[3]
    /\ ~BoardEq(current_level.board, PreBoard)

\* the sprite of layer c of cell i of board heads for cell t of the board
HeadsFor(board, i, c, t) ==
    /\ c \in DOMAIN board.grid[i].collision_layers
    /\ board.grid[i].collision_layers[c].wants_to_move \in CardinalDirection
    /\ t # i
    /\ t \in CellsInReach(board, i, c)

\* slot c of cell t is free on board b, or its sprite is not there on board a
FreeOrFreed(b, a, t, c) ==
    \/ c \notin DOMAIN b.grid[t].collision_layers
    \/ b.grid[t].collision_layers[c].sprite_index \notin StoredIds(a.grid[t])

\* from board b to board a the sprite of layer c went from cell i to cell t
MovedTo(b, a, i, c, t) ==
    /\ c \in DOMAIN a.grid[t].collision_layers
    /\ a.grid[t].collision_layers[c]
       = [b.grid[i].collision_layers[c] EXCEPT !.wants_to_move = "Stationary"]
    /\ b.grid[i].collision_layers[c].sprite_index \notin StoredIds(a.grid[i])

\* from board b to board a the sprite of layer c of cell i stayed, and cell t
\* is held by a sprite that was not there on b
BeatenTo(b, a, i, c, t) ==
    /\ c \in DOMAIN a.grid[i].collision_layers
    /\ a.grid[i].collision_layers[c]
       = [b.grid[i].collision_layers[c] EXCEPT !.wants_to_move = "Stationary"]
    /\ c \in DOMAIN a.grid[t].collision_layers
    /\ a.grid[t].collision_layers[c].sprite_index \notin StoredIds(b.grid[t])

\* no sprite is further than one step in its direction from where it was
OneStepAtMost(b, a) ==
    \A i \in DOMAIN b.grid :
       \A c \in DOMAIN b.grid[i].collision_layers :
          CellsHolding(a, c, b.grid[i].collision_layers[c].sprite_index)
          \subseteq CellsInReach(b, i, c)

\* C32 as stated: a sprite with a cardinal direction whose target slot is
\* free, or is left by its occupant during the resolution, ends one cell on
\* in its direction; no sprite moves more than one cell.
C32_MovesWhenTargetFrees ==
    status = "resolved" =>
       /\ OneStepAtMost(PreBoard, current_level.board)
       /\ \A i, t \in DOMAIN PreBoard.grid :
             \A c \in DOMAIN PreBoard.grid[i].collision_layers :
                (/\ HeadsFor(PreBoard, i, c, t)
                 /\ FreeOrFreed(PreBoard, current_level.board, t, c))
                => MovedTo(PreBoard, current_level.board, i, c, t)

\* C32, amended: such a sprite ends one cell on in its direction unless
\* another sprite of its layer entered the target slot before it; then it
\* stays in its cell and ends Stationary.  No sprite moves more than one cell.
C32_MovesUnlessBeaten ==
    status = "resolved" =>
       /\ OneStepAtMost(PreBoard, current_level.board)
       /\ \A i, t \in DOMAIN PreBoard.grid :
             \A c \in DOMAIN PreBoard.grid[i].collision_layers :
                (/\ HeadsFor(PreBoard, i, c, t)
                 /\ FreeOrFreed(PreBoard, current_level.board, t, c))
                => \/ MovedTo(PreBoard, current_level.board, i, c, t)
                   \/ BeatenTo(PreBoard, current_level.board, i, c, t)

\* two sprites of one layer stood side by side in a row of three cells, both
\* heading right towards the free cell, and both advanced
C32_RowAdvancedTogether ==
    /\ status = "resolved"
    /\ PreBoard.width = 3
    /\ HeadsFor(PreBoard, 1, Player.collision_layer, 2)
    /\ HeadsFor(PreBoard, 2, Player.collision_layer, 3)
    /\ MovedTo(PreBoard, current_level.board, 1, Player.collision_layer, 2)
    /\ MovedTo(PreBoard, current_level.board, 2, Player.collision_layer, 3)

\* the slots of a board that are not Stationary
Restless(board) ==
    {k \in DOMAIN Slots(board) :
        SlotEntry(board, Slots(board)[k]).wants_to_move # "Stationary"}

\* C33: every pass of the loop of evaluate_post that reports a change leaves
\* fewer non-Stationary slots than it found, so the loop ends after at most
\* one pass more than the board had non-Stationary slots.
C33_PassesBoundedBySlots ==
    status = "resolved" =>
       /\ \A k \in DOMAIN PassBoards(PreBoard) :
             PostPass(PassBoards(PreBoard)[k]).did_change =>
                Cardinality(Restless(PostPass(PassBoards(PreBoard)[k]).board))
                < Cardinality(Restless(PassBoards(PreBoard)[k]))
       /\ PostLoop(PreBoard, 0).passes = Len(PassBoards(PreBoard))
       /\ PostLoop(PreBoard, 0).passes <= Cardinality(Restless(PreBoard)) + 1

\* the loop ran as many passes as the bound allows: two that changed the
\* board of two non-Stationary slots, and the one that found nothing to do
C33_RanToTheBound ==
    /\ status = "resolved"
    /\ Cardinality(Restless(PreBoard)) = 2
    /\ PostLoop(PreBoard, 0).passes = 3

\* the ellipsis brackets searched on the boards of SpecRule
\* [ Crate | ... | ], [ Player | ... | Star ], DOWN [ Player | ... | Star ],
\* LEFT [ Star | Crate | ... | ], [ Star | ... | Crate | Crate ],
\* UP [ | ... | Player ]
EllipsisBrackets ==
    <<BracketNewEllipsis("Right", <<N1(CrateTile, None)>>, <<NeighborNew(<<>>)>>),
      BracketNewEllipsis("Right", <<N1(PlayerTile, None)>>, <<N1(StarTile, None)>>),
      BracketNewEllipsis("Down", <<N1(PlayerTile, None)>>, <<N1(StarTile, None)>>),
      BracketNewEllipsis("Left", <<N1(StarTile, None), N1(CrateTile, None)>>,
                         <<NeighborNew(<<>>)>>),
      BracketNewEllipsis("Right", <<N1(StarTile, None)>>,
                         <<N1(CrateTile, None), N1(CrateTile, None)>>),
      BracketNewEllipsis("Up", <<NeighborNew(<<>>)>>, <<N1(PlayerTile, None)>>)>>

\* the position d steps from pos in direction dir, on the board or not
Along(pos, dir, d) ==
    CASE dir = "Up"    -> Pos(pos.x, pos.y - d)
      [] dir = "Down"  -> Pos(pos.x, pos.y + d)
      [] dir = "Left"  -> Pos(pos.x - d, pos.y)
      [] dir = "Right" -> Pos(pos.x + d, pos.y)

\* the chain of neighbors lies on the board from q on in direction dir and
\* every neighbor matches its cell
ChainHolds(board, neighbors, q, dir) ==
    \A i \in DOMAIN neighbors :
       /\ OnBoard(board, Along(q, dir, i - 1))
       /\ NeighborMatches(neighbors[i], board, Along(q, dir, i - 1))

\* the positions of the board strictly beyond a chain of n cells from start
BeyondChain(board, start, dir, n) ==
    {q \in {IndexToPos(board, i - 1) : i \in DOMAIN board.grid} :
        \E d \in n..(board.width + board.height) : q = Along(start, dir, d)}

\* ms are the matches of ellipsis bracket b anchored at start: one for every
\* position beyond the before chain where the after chain holds, none when
\* the before chain does not hold
EllipsisMatchesAre(b, board, start, ms) ==
    /\ \A k \in DOMAIN ms :
          /\ ms[k].before_positions = start
          /\ Len(ms[k].after_positions) = 1
          /\ ms[k].after_positions[1]
             \in BeyondChain(board, start, b.dir, Len(b.before_neighbors))
    /\ \A q \in BeyondChain(board, start, b.dir, Len(b.before_neighbors)) :
          Cardinality({k \in DOMAIN ms : ms[k].after_positions = <<q>>})
          = IF /\ ChainHolds(board, b.before_neighbors, start, b.dir)
               /\ ChainHolds(board, b.after_neighbors, q, b.dir)
            THEN 1 ELSE 0

\* every cell to the right of a cell with a crate holds a star
StarsBeyondCrates(pre, post) ==
    \A i, j \in DOMAIN pre.grid :
       (/\ BoardMatches(pre, IndexToPos(pre, i - 1), CrateTile, None)
        /\ IndexToPos(pre, j - 1).y = IndexToPos(pre, i - 1).y
        /\ IndexToPos(pre, j - 1).x > IndexToPos(pre, i - 1).x)
       => BoardMatches(post, IndexToPos(post, j - 1), StarTile, None)

\* C34: find_match of an ellipsis bracket anchored at start returns exactly
\* one match for every position strictly beyond the before chain where the
\* after chain fits and matches, and none when the before chain does not
\* match or ends at the edge; and Rule::evaluate (all matches, eval_once
\* false) of [ Crate | ... | ] -> [ Crate | ... | Star ] leaves a star on
\* every cell to the right of a crate.
C34_EllipsisMatchesEveryCellBeyond ==
    /\ \A k \in DOMAIN EllipsisBrackets :
          \A i \in DOMAIN current_level.board.grid :
             EllipsisMatchesAre(EllipsisBrackets[k], current_level.board,
                                IndexToPos(current_level.board, i - 1),
                                FindMatch(EllipsisBrackets[k], current_level.board,
                                          IndexToPos(current_level.board, i - 1)))
    /\ (status = "ruled" /\ game.rule = "beam" /\ ~game.eval_once)
       => StarsBeyondCrates(PreBoard, current_level.board)

\* the beam rule was evaluated on a row with a crate on its first cell and
\* found a match for each of the two cells beyond it
C34_TwoCellsBeyond ==
    /\ status = "ruled"
    /\ game.rule = "beam"
    /\ ~game.eval_once
    /\ PreBoard.width = 3
    /\ Len(FindMatch(EllipsisBrackets[1], PreBoard, Pos(0, 0))) = 2
    /\ ~BoardEq(PreBoard, current_level.board)

\* the cell holds sprite s in its layer, with wants_to_move dir when one is given
CellHolds(cell, s, dir) ==
    /\ s.collision_layer \in DOMAIN cell.collision_layers
    /\ cell.collision_layers[s.collision_layer].sprite_index = s.index
    /\ dir # None => cell.collision_layers[s.collision_layer].wants_to_move = dir

\* the reference predicate: all the sprites of an And tile, one of an Or tile
TileHolds(cell, tile, dir) ==
    IF tile.kind = "And"
    THEN \A k \in DOMAIN tile.sprites : CellHolds(cell, tile.sprites[k], dir)
    ELSE \E k \in DOMAIN tile.sprites : CellHolds(cell, tile.sprites[k], dir)

\* C35: Cell::matches(tile, dir) is the reference predicate for every cell,
\* tile and optional direction (an And tile: every sprite of the tile is in
\* the cell, each with dir when given; an Or tile: at least one is), and
\* TileWithModifier::matches is that result XOR negated.
C35_MatchesIsReference ==
    status = "matched" =>
       /\ last.result.cell
          = TileHolds(current_level.board.grid[1], last.input.tile, last.input.direction)
       /\ last.result.twm
          = (last.input.negated
             # TileHolds(current_level.board.grid[1], last.input.tile, last.input.direction))

\* a cell holds a player heading right and a star that is not: the Or tile of
\* the two matched with RIGHT, and NO of it did not
C35_OneOfTwoHeadsRight ==
    /\ status = "matched"
    /\ CellHolds(current_level.board.grid[1], Player, "Right")
    /\ CellHolds(current_level.board.grid[1], Star, "Stationary")
    /\ last.input = TileWithModifier(Tile("Or", <<Player, Star>>), "Right", TRUE)
    /\ last.result.cell
    /\ ~last.result.twm

\* the members of a BitSet
Members(s) ==
    {index \in 0..(BUCKET_COUNT * BUCKET_SIZE - 1) : BitSetContains(s, index)}

\* C36: for BitSets built by insert, remove and insert_all the emptiness
\* flag agrees with the bits, a.contains_any(b) is true exactly when b has no
\* members or a and b share one, and contains_any, contains_all and
\* contains_none are true for an argument without members.
C36_ContainsAnyBySharedMember ==
    \A x, y \in {"a", "b"} :
       /\ BitSetIsEmpty(game[y]) = (Members(game[y]) = {})
       /\ BitSetContainsAny(game[x], game[y])
          = (Members(game[y]) = {} \/ Members(game[x]) \cap Members(game[y]) # {})
       /\ Members(game[y]) = {} =>
             /\ BitSetContainsAny(game[x], game[y])
             /\ BitSetContainsAll(game[x], game[y])
             /\ BitSetContainsNone(game[x], game[y])

\* C37: into_vec returns the members of the set, each once, in ascending
\* order, also when they lie in more than one bucket.
C37_IntoVecAscendingMembers ==
    last.kind = "into_vec" =>
       /\ {last.result.vec[k] : k \in DOMAIN last.result.vec} = Members(last.result.of)
       /\ Len(last.result.vec) = Cardinality(Members(last.result.of))
       /\ \A k \in 1..(Len(last.result.vec) - 1) :
             last.result.vec[k] < last.result.vec[k + 1]

\* C38: the generator is in its seeded state at every level entry: in an
\* engine just built and after every next_level that returned true.
C38_SeededAtLevelEntry ==
    /\ (last.kind = "init" /\ game # "step") => rng = NewRng
    /\ (last.kind = "next_level" /\ last.returned) => rng = NewRng

\* C39: a tick on a map level with no message pending reports changed exactly
\* when the board it leaves differs from the board it found, in the sprites or
\* the wants_to_move of some cell, whatever the input, Undo and Restart
\* included.
C39_ChangedIffBoardDiffers ==
    (last.kind = "tick" /\ last.evaluated /\ status # "panicked")
        => (last.result.changed <=> ~BoardEq(current_level.board, PreBoard))

\* an Undo took a board off the stack that the rules left as it was, and the
\* tick reported the change
C39_UndoReportedChange ==
    /\ last.kind = "tick"
    /\ last.input = "Undo"
    /\ last.pre_stack # <<>>
    /\ BoardEq(current_level.board, last.pre_stack[Len(last.pre_stack)])
    /\ last.result.changed

=============================================================================
